---- MODULE Spec2Model ----
(***************************************************************************)
(* markdown-it-admonitions: the fenced-container rule, the blockquote      *)
(* callout rule and the plugin registration, as a state machine.           *)
(*                                                                         *)
(* A string is a sequence of one-character strings, positions and line     *)
(* numbers are 0-based as in the source.  The recursion of the block       *)
(* parser is an explicit stack of frames: one frame per running            *)
(* tokenize loop and one per rule waiting for its interior.                *)
(***************************************************************************)
EXTENDS Integers, Sequences, FiniteSets, TLC

VARIABLES md, prior, opts, thrown, phase, state, stack, calls, ret, probe

vars == <<md, prior, opts, thrown, phase, state, stack, calls, ret, probe>>

(***************************************************************************)
(* Strings and arrays                                                      *)
(***************************************************************************)

\* the value of an out-of-range read, src[p] past the end of the buffer
Undef == "undefined"

\* s[p] of a JavaScript string
Ch(s, p) == IF p >= 0 /\ p < Len(s) THEN s[p + 1] ELSE Undef

\* arr[i] ?? 0 of a number array
NumAt(arr, i) == IF i >= 0 /\ i < Len(arr) THEN arr[i + 1] ELSE 0

\* arr[i] = v, in place
SetAt(arr, i, v) == [arr EXCEPT ![i + 1] = v]

\* the element of a one-element set; The({e(x) : x \in {v}}) is e with x
\* naming the value of v, computed once
The(S) == CHOOSE x \in S : TRUE

Min(a, b) == IF a < b THEN a ELSE b

\* s.slice(a, b) for 0 <= a
Slice(s, a, b) ==
  LET hi == Min(b, Len(s))
  IN  IF a >= hi THEN <<>> ELSE [i \in 1..(hi - a) |-> s[a + i]]

RECURSIVE Rep(_, _)
\* marker.repeat(k)
Rep(s, k) == IF k <= 0 THEN <<>> ELSE s \o Rep(s, k - 1)

\* the white space String.prototype.trim removes, among the characters used
IsTrimSpace(c) == c \in {" ", "\t", "\n"}

\* isSpace of markdown-it: a space or a tab
isSpace(c) == c \in {" ", "\t"}

RECURSIVE TrimLeft(_)
TrimLeft(s) == IF s # <<>> /\ IsTrimSpace(Head(s)) THEN TrimLeft(Tail(s)) ELSE s

RECURSIVE TrimRight(_)
TrimRight(s) ==
  IF s # <<>> /\ IsTrimSpace(s[Len(s)]) THEN TrimRight(SubSeq(s, 1, Len(s) - 1)) ELSE s

\* text.trim()
Trim(s) == TrimRight(TrimLeft(s))

RECURSIVE FirstWord(_)
\* text.split(" ", 2)[0]: the text up to its first space
FirstWord(s) ==
  IF s = <<>> \/ Head(s) = " " THEN <<>> ELSE <<Head(s)>> \o FirstWord(Tail(s))

\* one character of String.prototype.toLowerCase
LowerCh(c) ==
  CASE c = "N" -> "n"
    [] c = "O" -> "o"
    [] c = "T" -> "t"
    [] c = "E" -> "e"
    [] OTHER -> c

ToLowerCase(s) == [i \in 1..Len(s) |-> LowerCh(s[i])]

\* types.includes(x)
Includes(arr, x) == \E i \in 1..Len(arr) : arr[i] = x

RECURSIVE Join(_, _)
\* lines.join(sep)
Join(lines, sep) ==
  IF lines = <<>> THEN <<>>
  ELSE IF Len(lines) = 1 THEN lines[1]
  ELSE lines[1] \o sep \o Join(Tail(lines), sep)

(***************************************************************************)
(* Line window accessors and the marker matcher                            *)
(***************************************************************************)

getLineStart(st, line) == NumAt(st.bMarks, line) + NumAt(st.tShift, line)

getLineEnd(st, line) == NumAt(st.eMarks, line)

getLineIndent(st, line) == NumAt(st.sCount, line)

\* a % b of JavaScript: the remainder has the sign of the dividend
Rem(a, b) == IF a >= 0 THEN a % b ELSE 0 - ((0 - a) % b)

RECURSIVE matchMarkerSequenceBelowMax(_, _, _, _, _, _)
\* matchMarkerSequence that stops in front of max
matchMarkerSequenceBelowMax(st, position, max, marker, markerLength, startPosition) ==
  IF position < max
     /\ Ch(marker, Rem(position - startPosition, markerLength)) = Ch(st.src, position)
  THEN matchMarkerSequenceBelowMax(st, position + 1, max, marker, markerLength, startPosition)
  ELSE position

RECURSIVE matchMarkerSequence(_, _, _, _, _, _)
matchMarkerSequence(st, position, max, marker, markerLength, startPosition) ==
  IF position <= max
     /\ Ch(marker, Rem(position - startPosition, markerLength)) = Ch(st.src, position)
  THEN matchMarkerSequence(st, position + 1, max, marker, markerLength, startPosition)
  ELSE position

RECURSIVE skipSpaces(_, _)
\* StateBlock.skipSpaces: the first position at or after pos that holds no space
skipSpaces(st, pos) ==
  IF pos < Len(st.src) /\ isSpace(Ch(st.src, pos)) THEN skipSpaces(st, pos + 1) ELSE pos

\* StateBlock.isEmpty
isEmpty(st, line) ==
  NumAt(st.bMarks, line) + NumAt(st.tShift, line) >= NumAt(st.eMarks, line)

RECURSIVE skipEmptyLines(_, _)
\* StateBlock.skipEmptyLines: bounded by lineMax
skipEmptyLines(st, from) ==
  IF from < st.lineMax /\ isEmpty(st, from) THEN skipEmptyLines(st, from + 1) ELSE from

(***************************************************************************)
(* The parser context (StateBlock) and its tokens                          *)
(***************************************************************************)

Fields ==
  {"src", "bMarks", "eMarks", "tShift", "sCount", "line", "lineMax",
   "blkIndent", "parentType", "level", "tokens"}

\* the fields in which two contexts differ
Changed(a, b) == {f \in Fields : a[f] # b[f]}

RECURSIVE ScanLines(_, _, _, _, _, _, _)
\* the constructor's scan: one table row per line, the leading spaces counted
ScanLines(s, pos, start, indent, offset, found, acc) ==
  IF pos >= Len(s) THEN acc
  ELSE LET ch == Ch(s, pos) IN
    IF ~found /\ isSpace(ch)
    THEN ScanLines(s, pos + 1, start, indent + 1,
                   IF ch = "\t" THEN offset + 4 - (offset % 4) ELSE offset + 1, FALSE, acc)
    ELSE IF ch = "\n" \/ pos = Len(s) - 1
    THEN LET e == IF ch # "\n" THEN pos + 1 ELSE pos IN
         ScanLines(s, e + 1, e + 1, 0, 0, FALSE,
                   [bMarks |-> Append(acc.bMarks, start), eMarks |-> Append(acc.eMarks, e),
                    tShift |-> Append(acc.tShift, indent), sCount |-> Append(acc.sCount, offset)])
    ELSE ScanLines(s, pos + 1, start, indent, offset, TRUE, acc)

\* new StateBlock(src): the line table, its closing fake row, the context at the root
StateBlock(s) ==
  LET t == ScanLines(s, 0, 0, 0, 0, FALSE,
                     [bMarks |-> <<>>, eMarks |-> <<>>, tShift |-> <<>>, sCount |-> <<>>])
  IN  [src |-> s,
       bMarks |-> Append(t.bMarks, Len(s)), eMarks |-> Append(t.eMarks, Len(s)),
       tShift |-> Append(t.tShift, 0), sCount |-> Append(t.sCount, 0),
       line |-> 0, lineMax |-> Len(t.bMarks), blkIndent |-> 0,
       parentType |-> "root", level |-> 0, tokens |-> <<>>]

\* the context before any parse
NoState == StateBlock(<<>>)

\* a token: kind of rule, type name, nesting, level, markup, info, line range
Token(kind, name, nesting, level) ==
  [kind |-> kind, name |-> name, nesting |-> nesting, level |-> level,
   markup |-> <<>>, info |-> <<>>, map |-> <<>>]

\* state.push(type, tag, nesting): a close token steps the level down before
\* it is stamped, an open token steps it up after
push(st, kind, name, nesting, markup, info, map) ==
  LET lv == IF nesting < 0 THEN st.level - 1 ELSE st.level
      tk == [Token(kind, name, nesting, lv) EXCEPT !.markup = markup, !.info = info, !.map = map]
  IN  [st EXCEPT !.tokens = Append(@, tk),
                 !.level = IF nesting > 0 THEN lv + 1 ELSE lv]

(***************************************************************************)
(* Save and restore of the context fields                                  *)
(***************************************************************************)

saveState(st) ==
  [parentType |-> st.parentType, lineMax |-> st.lineMax, blkIndent |-> st.blkIndent]

\* restoreState without the line of lineMax
restoreStateWithoutLineMax(st, saved) ==
  [st EXCEPT !.parentType = saved.parentType,
             !.blkIndent = saved.blkIndent]

restoreState(st, saved) ==
  [st EXCEPT !.parentType = saved.parentType,
             !.lineMax = saved.lineMax,
             !.blkIndent = saved.blkIndent]

(***************************************************************************)
(* The fenced container rule                                               *)
(***************************************************************************)

MIN_MARKER_NUM == 3

\* the validate callback the plugin installs for a type
validate(params, type) == FirstWord(Trim(params)) = type

\* isClosingFence that wants a run longer than the opening one
isClosingFenceLonger(st, nextLine, currentLineIndent, markerStart, marker, markerLength, markerCount) ==
  LET nextLineStart == getLineStart(st, nextLine)
      nextLineMax == getLineEnd(st, nextLine)
      position == matchMarkerSequence(st, nextLineStart + 1, nextLineMax, marker,
                                      markerLength, nextLineStart)
      after == skipSpaces(st, position - ((position - nextLineStart) % markerLength))
  IN  /\ getLineIndent(st, nextLine) = currentLineIndent
      /\ markerStart = Ch(st.src, nextLineStart)
      /\ (position - nextLineStart) \div markerLength > markerCount
      /\ after >= nextLineMax

\* one line of the close search: is it a closing fence
\* isClosingFence without the test of the indent
isClosingFenceAnyIndent(st, nextLine, currentLineIndent, markerStart, marker, markerLength, markerCount) ==
  LET nextLineStart == getLineStart(st, nextLine)
      nextLineMax == getLineEnd(st, nextLine)
      position == matchMarkerSequence(st, nextLineStart + 1, nextLineMax, marker,
                                      markerLength, nextLineStart)
      after == skipSpaces(st, position - ((position - nextLineStart) % markerLength))
  IN  /\ markerStart = Ch(st.src, nextLineStart)
      /\ (position - nextLineStart) \div markerLength >= markerCount
      /\ after >= nextLineMax

isClosingFence(st, nextLine, currentLineIndent, markerStart, marker, markerLength, markerCount) ==
  LET nextLineStart == getLineStart(st, nextLine)
      nextLineMax == getLineEnd(st, nextLine)
      position == matchMarkerSequence(st, nextLineStart + 1, nextLineMax, marker,
                                      markerLength, nextLineStart)
      after == skipSpaces(st, position - ((position - nextLineStart) % markerLength))
  IN  /\ getLineIndent(st, nextLine) = currentLineIndent
      /\ markerStart = Ch(st.src, nextLineStart)
      /\ (position - nextLineStart) \div markerLength >= markerCount
      /\ after >= nextLineMax

\* stopsSearch without the test for text on the line
stopsSearchOnBlank(st, nextLine, currentLineIndent) ==
  getLineIndent(st, nextLine) < currentLineIndent

\* the close search stops on a line that holds text and is indented less
stopsSearch(st, nextLine, currentLineIndent) ==
  /\ getLineStart(st, nextLine) < getLineEnd(st, nextLine)
  /\ getLineIndent(st, nextLine) < currentLineIndent

RECURSIVE findClosingFenceFrom(_, _, _, _, _, _, _, _)
findClosingFenceFrom(st, nextLine, endLine, currentLineIndent, markerStart, marker, markerLength, markerCount) ==
  IF nextLine >= endLine THEN [found |-> FALSE, nextLine |-> nextLine]
  ELSE IF stopsSearch(st, nextLine, currentLineIndent)
  THEN [found |-> FALSE, nextLine |-> nextLine]
  ELSE IF isClosingFence(st, nextLine, currentLineIndent, markerStart, marker,
                         markerLength, markerCount)
  THEN [found |-> TRUE, nextLine |-> nextLine]
  ELSE findClosingFenceFrom(st, nextLine + 1, endLine, currentLineIndent, markerStart,
                            marker, markerLength, markerCount)

findClosingFence(st, startLine, endLine, currentLineIndent, markerStart, marker, markerLength, markerCount) ==
  findClosingFenceFrom(st, startLine + 1, endLine, currentLineIndent, markerStart, marker,
                       markerLength, markerCount)

\* what a rule hands back: its answer, the context it leaves, and, when it
\* has to tokenize an interior first, the frame it waits in and the range
NoFrame == [kind |-> "none"]

Miss(st) == [ok |-> FALSE, st |-> st, frame |-> NoFrame]

Hit(st) == [ok |-> TRUE, st |-> st, frame |-> NoFrame]

\* the opening line as the rule reads it
\* enoughMarkers that is content with one repetition less
enoughMarkersFromTwo(markerCount) == markerCount >= MIN_MARKER_NUM - 1

\* the test of the count of whole repetitions
enoughMarkers(markerCount) == markerCount >= MIN_MARKER_NUM

containerOpen(st, name, marker, startLine) ==
  LET markerLength == Len(marker)
      currentLineStart == getLineStart(st, startLine)
      currentLineMax == getLineEnd(st, startLine)
  IN  The({
        LET markerCount == (position - currentLineStart) \div markerLength
            paramStart == position - ((position - currentLineStart) % markerLength)
            params == Slice(st.src, paramStart, currentLineMax)
        IN  [ok |-> /\ Ch(marker, 0) = Ch(st.src, currentLineStart)
                    /\ enoughMarkers(markerCount)
                    /\ validate(params, name),
             markerCount |-> markerCount,
             markup |-> Rep(marker, markerCount),
             params |-> params]
        : position \in {matchMarkerSequence(st, currentLineStart + 1, currentLineMax,
                                            marker, markerLength, currentLineStart)} })

\* a rule of the block ruler: admonition_<type>, obsidian_callout, or one of
\* the host's own
Rule(kind, type, marker, types, alt) ==
  [kind |-> kind, type |-> type, marker |-> marker, types |-> types, alt |-> alt]

\* the rule from the close search on: the context narrowed to the block, the
\* open token pushed, the interior handed to the host
\* interiorStart that hands the opener's own line to the interior
interiorStartAtOpener(startLine) == startLine

\* the first line of the interior the rule hands to the host
interiorStart(startLine) == startLine + 1

\* containerState that leaves lineMax at the end of the scope
containerStateWholeScope(st, closingFence, currentLineIndent) ==
  [st EXCEPT !.parentType = "container", !.blkIndent = currentLineIndent]

\* the context as the rule sets it for its interior
containerState(st, closingFence, currentLineIndent) ==
  [st EXCEPT !.parentType = "container",
             !.lineMax = closingFence.nextLine,
             !.blkIndent = currentLineIndent]

containerEmit(st, rule, startLine, endLine, o) ==
  LET currentLineIndent == getLineIndent(st, startLine)
  IN  The({
        LET savedState == saveState(st)
            narrowed == containerState(st, closingFence, currentLineIndent)
            opened == push(narrowed, "admonition", rule.type, 1, o.markup, o.params,
                           <<startLine, closingFence.nextLine>>)
        IN  [ok |-> TRUE, st |-> opened,
             frame |-> [kind |-> "container", rule |-> rule, startLine |-> startLine,
                        endLine |-> endLine, markup |-> o.markup,
                        markerCount |-> o.markerCount, closingFence |-> closingFence,
                        savedState |-> savedState,
                        from |-> interiorStart(startLine), to |-> closingFence.nextLine]]
        : closingFence \in {findClosingFence(st, startLine, endLine, currentLineIndent,
                                             Ch(rule.marker, 0), rule.marker,
                                             Len(rule.marker), o.markerCount)} })

\* container without the return of silent mode
containerWithoutSilent(st, rule, startLine, endLine, silent) ==
  The({ IF ~o.ok THEN Miss(st)
        ELSE containerEmit(st, rule, startLine, endLine, o)
        : o \in {containerOpen(st, rule.type, rule.marker, startLine)} })

\* container that, called by the loop, takes only an opener with a closing line
containerClosedOnly(st, rule, startLine, endLine, silent) ==
  The({ IF ~o.ok THEN Miss(st)
        ELSE IF silent THEN Hit(st)
        ELSE The({ IF e.frame.closingFence.found THEN e ELSE Miss(st)
                   : e \in {containerEmit(st, rule, startLine, endLine, o)} })
        : o \in {containerOpen(st, rule.type, rule.marker, startLine)} })

container(st, rule, startLine, endLine, silent) ==
  The({ IF ~o.ok THEN Miss(st)
        ELSE IF silent THEN Hit(st)
        ELSE containerEmit(st, rule, startLine, endLine, o)
        : o \in {containerOpen(st, rule.type, rule.marker, startLine)} })

\* containerCursor that leaves the closing line to the caller
containerCursorAtClose(closingFence) == closingFence.nextLine

\* containerCursor that steps over the line the search ended on
containerCursorPast(closingFence) == closingFence.nextLine + 1

\* where the rule leaves the cursor
containerCursor(closingFence) ==
  closingFence.nextLine + (IF closingFence.found THEN 1 ELSE 0)

\* containerResume without the close token
containerResumeWithoutClose(st, frame) ==
  [restoreState(st, frame.savedState) EXCEPT !.line = containerCursor(frame.closingFence)]

\* the rule after the interior: the close token, the context restored, the cursor
containerResume(st, frame) ==
  LET closed == push(st, "admonition", frame.rule.type, -1, frame.markup, <<>>, <<>>)
      restored == restoreState(closed, frame.savedState)
  IN  [restored EXCEPT !.line = containerCursor(frame.closingFence)]

(***************************************************************************)
(* The blockquote callout rule                                             *)
(***************************************************************************)

RECURSIVE findBracket(_, _, _)
\* the scan for the closing bracket, bounded by the line end
findBracket(st, typeEndPosition, max) ==
  IF typeEndPosition < max /\ Ch(st.src, typeEndPosition) # "]"
  THEN findBracket(st, typeEndPosition + 1, max)
  ELSE typeEndPosition

\* parseObsidianCalloutType without the lower-casing of the bracket text
parseObsidianCalloutTypeAsWritten(st, startLine, types) ==
  LET position == getLineStart(st, startLine)
      max == getLineEnd(st, startLine)
      linePosition == IF Ch(st.src, position + 1) = " " THEN position + 2 ELSE position + 1
      typeEndPosition == findBracket(st, linePosition + 2, max)
      calloutType == Slice(st.src, linePosition + 2, typeEndPosition)
      title == IF typeEndPosition + 1 < max
               THEN Trim(Slice(st.src, typeEndPosition + 1, max)) ELSE <<>>
  IN  [ok |-> /\ Ch(st.src, position) = ">"
              /\ Ch(st.src, linePosition) = "["
              /\ Ch(st.src, linePosition + 1) = "!"
              /\ typeEndPosition < max
              /\ Includes(types, calloutType),
       calloutType |-> calloutType,
       title |-> title]

parseObsidianCalloutType(st, startLine, types) ==
  LET position == getLineStart(st, startLine)
      max == getLineEnd(st, startLine)
      linePosition == IF Ch(st.src, position + 1) = " " THEN position + 2 ELSE position + 1
      typeEndPosition == findBracket(st, linePosition + 2, max)
      calloutType == ToLowerCase(Slice(st.src, linePosition + 2, typeEndPosition))
      title == IF typeEndPosition + 1 < max
               THEN Trim(Slice(st.src, typeEndPosition + 1, max)) ELSE <<>>
  IN  [ok |-> /\ Ch(st.src, position) = ">"
              /\ Ch(st.src, linePosition) = "["
              /\ Ch(st.src, linePosition + 1) = "!"
              /\ typeEndPosition < max
              /\ Includes(types, calloutType),
       calloutType |-> calloutType,
       title |-> title]

RECURSIVE extractObsidianContentFrom(_, _, _, _)
extractObsidianContentFrom(st, nextLine, endLine, contentLines) ==
  LET nextPosition == getLineStart(st, nextLine)
      nextMax == getLineEnd(st, nextLine)
      contentStartPosition ==
        IF Ch(st.src, nextPosition + 1) = " " THEN nextPosition + 2 ELSE nextPosition + 1
  IN  IF nextLine < endLine /\ Ch(st.src, nextPosition) = ">"
      THEN extractObsidianContentFrom(st, nextLine + 1, endLine,
             Append(contentLines, Slice(st.src, contentStartPosition, nextMax)))
      ELSE [contentLines |-> contentLines, nextLine |-> nextLine]

\* extractObsidianContent that begins at the header line
extractObsidianContentFromHeader(st, startLine, endLine) ==
  extractObsidianContentFrom(st, startLine, endLine, <<>>)

extractObsidianContent(st, startLine, endLine) ==
  extractObsidianContentFrom(st, startLine + 1, endLine, <<>>)

RECURSIVE lineOffsetsWithoutNewline(_, _)
\* lineOffsets that does not count the newline between two lines
lineOffsetsWithoutNewline(contentLines, offset) ==
  IF contentLines = <<>> THEN <<>>
  ELSE <<offset>>
         \o lineOffsetsWithoutNewline(Tail(contentLines), offset + Len(Head(contentLines)))

RECURSIVE lineOffsets(_, _)
\* the running offset of the table loop: the start of every content line
lineOffsets(contentLines, offset) ==
  IF contentLines = <<>> THEN <<>>
  ELSE <<offset>> \o lineOffsets(Tail(contentLines), offset + Len(Head(contentLines)) + 1)

\* the parsing arrays saved before the content is processed
saveArrays(st) ==
  [src |-> st.src, bMarks |-> st.bMarks, eMarks |-> st.eMarks,
   tShift |-> st.tShift, sCount |-> st.sCount]

\* the synthetic buffer and line table put in place for the nested tokenize
temporaryState(st, contentLines) ==
  LET starts == lineOffsets(contentLines, 0)
      n == Len(contentLines)
  IN  [st EXCEPT !.src = Join(contentLines, <<"\n">>),
                 !.bMarks = starts,
                 !.eMarks = [i \in 1..n |-> starts[i] + Len(contentLines[i])],
                 !.tShift = [i \in 1..n |-> 0],
                 !.sCount = [i \in 1..n |-> 0],
                 !.lineMax = n]

\* restoreArrays that puts back the buffer and leaves the line table
restoreArraysWithoutTable(st, saved) == [st EXCEPT !.src = saved.src]

\* the parsing arrays put back once the nested tokenize is over
restoreArrays(st, saved) ==
  [st EXCEPT !.src = saved.src, !.bMarks = saved.bMarks, !.eMarks = saved.eMarks,
             !.tShift = saved.tShift, !.sCount = saved.sCount]

\* calloutCursor that steps over the line the body ended before
calloutCursorPast(frame) == frame.nextLine + 1

\* where the callout rule leaves the cursor
calloutCursor(frame) == frame.nextLine

\* the rule after the content: the close token, the context restored, the cursor
calloutFinishUnmarked(st, frame) ==
  LET closed == push(st, "admonition", frame.calloutType, -1, <<>>, <<>>, <<>>)
      restored == restoreState(closed, frame.savedState)
  IN  [restored EXCEPT !.line = calloutCursor(frame)]

calloutFinish(st, frame) ==
  LET closed == push(st, "admonition", frame.calloutType, -1, <<">">>, <<>>, <<>>)
      restored == restoreState(closed, frame.savedState)
  IN  [restored EXCEPT !.line = calloutCursor(frame)]

\* the rule after the nested tokenize
calloutResume(st, frame) == calloutFinish(restoreArrays(st, frame.saved), frame)

\* the rule from the body collection on; a callout without body lines is
\* finished at once
calloutEmit(st, rule, startLine, endLine, calloutInfo) ==
  The({
    LET savedState == saveState(st)
        info == calloutInfo.calloutType
                \o (IF calloutInfo.title # <<>> THEN <<" ">> \o calloutInfo.title ELSE <<>>)
        opened == push([st EXCEPT !.parentType = "blockquote"], "admonition",
                       calloutInfo.calloutType, 1, <<">">>, info,
                       <<startLine, content.nextLine>>)
        frame == [kind |-> "callout", rule |-> rule, startLine |-> startLine,
                  endLine |-> endLine, calloutType |-> calloutInfo.calloutType,
                  contentLines |-> content.contentLines, nextLine |-> content.nextLine,
                  savedState |-> savedState, saved |-> saveArrays(st),
                  from |-> 0, to |-> Len(content.contentLines)]
    IN  IF content.contentLines = <<>>
        THEN [ok |-> TRUE, st |-> calloutFinish(opened, frame),
              frame |-> [frame EXCEPT !.kind = "calloutDone"]]
        ELSE [ok |-> TRUE, st |-> temporaryState(opened, content.contentLines),
              frame |-> frame]
    : content \in {extractObsidianContent(st, startLine, endLine)} })

\* obsidianCallout that sets parentType before it reads the header
obsidianCalloutParentFirst(st, rule, startLine, endLine, silent) ==
  The({ IF ~calloutInfo.ok THEN Miss([st EXCEPT !.parentType = "blockquote"])
        ELSE IF silent THEN Hit(st)
        ELSE calloutEmit(st, rule, startLine, endLine, calloutInfo)
        : calloutInfo \in {parseObsidianCalloutType(st, startLine, rule.types)} })

obsidianCallout(st, rule, startLine, endLine, silent) ==
  The({ IF ~calloutInfo.ok THEN Miss(st)
        ELSE IF silent THEN Hit(st)
        ELSE calloutEmit(st, rule, startLine, endLine, calloutInfo)
        : calloutInfo \in {parseObsidianCalloutType(st, startLine, rule.types)} })

(***************************************************************************)
(* The host: the rules of markdown-it the documents can reach, and the     *)
(* tokenize loop.  No line of the documents starts a code block, a fence,  *)
(* a list, a heading, a table, a rule or a reference (see DocsFor).        *)
(***************************************************************************)

\* the text of a line as a rule reads it: from its first character to its end
LineText(st, line) == Slice(st.src, getLineStart(st, line), getLineEnd(st, line))

\* the whole line, its leading white space included
LineRaw(st, line) == Slice(st.src, NumAt(st.bMarks, line), NumAt(st.eMarks, line))

\* the record of one call of a rule that ran to its end inside one step
MkCall(rule, st, line, endLine, silent, res) ==
  [rule |-> rule, line |-> line, endLine |-> endLine, silent |-> silent,
   ok |-> res.ok, changed |-> Changed(st, res.st), text |-> LineText(st, line),
   raw |-> LineRaw(st, line), indent |-> getLineIndent(st, line)]

\* blockquote in silent mode: a line that starts with > less than 4 columns in
blockquoteSilent(st, startLine) ==
  IF /\ NumAt(st.sCount, startLine) - st.blkIndent < 4
     /\ Ch(st.src, NumAt(st.bMarks, startLine) + NumAt(st.tShift, startLine)) = ">"
  THEN Hit(st) ELSE Miss(st)

\* a rule called as a terminator (silent)
silentRule(st, rule, line, endLine) ==
  CASE rule.kind = "container" -> container(st, rule, line, endLine, TRUE)
    [] rule.kind = "callout" -> obsidianCallout(st, rule, line, endLine, TRUE)
    [] rule.kind = "blockquote" -> blockquoteSilent(st, line)
    [] OTHER -> Miss(st)

RECURSIVE terminators(_, _, _, _, _, _, _)
\* the rules of one chain tried in silent mode at a line, in ruler order
terminators(st, rules, i, chain, line, endLine, acc) ==
  IF i > Len(rules) THEN [terminate |-> FALSE, st |-> st, calls |-> acc]
  ELSE IF chain \notin rules[i].alt
  THEN terminators(st, rules, i + 1, chain, line, endLine, acc)
  ELSE The({
         LET seen == acc \cup {MkCall(rules[i], st, line, endLine, TRUE, res)}
         IN  IF res.ok THEN [terminate |-> TRUE, st |-> res.st, calls |-> seen]
             ELSE terminators(res.st, rules, i + 1, chain, line, endLine, seen)
         : res \in {silentRule(st, rules[i], line, endLine)} })

RECURSIVE paragraphScan(_, _, _, _, _)
\* the lines a paragraph takes: up to a blank line or a terminating rule
paragraphScan(st, rules, nextLine, endLine, acc) ==
  IF ~(nextLine < endLine /\ ~isEmpty(st, nextLine))
  THEN [st |-> st, nextLine |-> nextLine, calls |-> acc]
  ELSE IF NumAt(st.sCount, nextLine) - st.blkIndent > 3 \/ NumAt(st.sCount, nextLine) < 0
  THEN paragraphScan(st, rules, nextLine + 1, endLine, acc)
  ELSE The({ IF t.terminate THEN [st |-> t.st, nextLine |-> nextLine, calls |-> t.calls]
             ELSE paragraphScan(t.st, rules, nextLine + 1, endLine, t.calls)
             : t \in {terminators(st, rules, 1, "paragraph", nextLine, endLine, acc)} })

paragraph(st, rules, startLine, endLine) ==
  The({
    LET moved == [scan.st EXCEPT !.line = scan.nextLine]
        p1 == push(moved, "paragraph", <<>>, 1, <<>>, <<>>, <<startLine, scan.nextLine>>)
        p2 == push(p1, "inline", <<>>, 0, <<>>, <<>>, <<startLine, scan.nextLine>>)
        p3 == push(p2, "paragraph", <<>>, -1, <<>>, <<>>, <<>>)
    IN  [ok |-> TRUE, st |-> [p3 EXCEPT !.parentType = st.parentType],
         frame |-> NoFrame, calls |-> scan.calls]
    : scan \in {paragraphScan([st EXCEPT !.parentType = "paragraph"], rules,
                              startLine + 1, endLine, {})} })

RECURSIVE skipSpacesTo(_, _, _)
skipSpacesTo(st, pos, max) ==
  IF pos < max /\ isSpace(Ch(st.src, pos)) THEN skipSpacesTo(st, pos + 1, max) ELSE pos

\* the table row of a line, kept to be put back
Row(st, line) ==
  [line |-> line, bMarks |-> NumAt(st.bMarks, line), tShift |-> NumAt(st.tShift, line),
   sCount |-> NumAt(st.sCount, line)]

\* a quoted line: its row moved past the > and one space
quoteRow(st, nextLine) ==
  LET pos == NumAt(st.bMarks, nextLine) + NumAt(st.tShift, nextLine) + 1
      start == IF Ch(st.src, pos) = " " THEN pos + 1 ELSE pos
      stop == skipSpacesTo(st, start, NumAt(st.eMarks, nextLine))
  IN  [st EXCEPT !.bMarks = SetAt(@, nextLine, start),
                 !.sCount = SetAt(@, nextLine, stop - start),
                 !.tShift = SetAt(@, nextLine, stop - start)]

RECURSIVE blockquoteScan(_, _, _, _, _, _, _)
\* the lines of a blockquote: the quoted ones, and the lazy continuations
blockquoteScan(st, rules, nextLine, endLine, lastLineEmpty, old, acc) ==
  LET pos == NumAt(st.bMarks, nextLine) + NumAt(st.tShift, nextLine)
      max == NumAt(st.eMarks, nextLine)
      isOutdented == NumAt(st.sCount, nextLine) < st.blkIndent
      done == [st |-> st, nextLine |-> nextLine, old |-> old, calls |-> acc]
  IN  IF nextLine >= endLine \/ pos >= max THEN done
      ELSE IF Ch(st.src, pos) = ">" /\ ~isOutdented
      THEN The({ blockquoteScan(quoted, rules, nextLine + 1, endLine,
                                getLineStart(quoted, nextLine) >= max,
                                Append(old, Row(st, nextLine)), acc)
                 : quoted \in {quoteRow(st, nextLine)} })
      ELSE IF lastLineEmpty THEN done
      ELSE The({
        IF t.terminate
        THEN [st |-> IF st.blkIndent # 0
                     THEN [t.st EXCEPT !.lineMax = nextLine,
                                       !.sCount = SetAt(@, nextLine,
                                          NumAt(t.st.sCount, nextLine) - st.blkIndent)]
                     ELSE [t.st EXCEPT !.lineMax = nextLine],
              nextLine |-> nextLine,
              old |-> IF st.blkIndent # 0 THEN Append(old, Row(st, nextLine)) ELSE old,
              calls |-> t.calls]
        ELSE blockquoteScan([t.st EXCEPT !.sCount = SetAt(@, nextLine, -1)], rules,
                            nextLine + 1, endLine, lastLineEmpty,
                            Append(old, Row(st, nextLine)), t.calls)
        : t \in {terminators(st, rules, 1, "blockquote", nextLine, endLine, acc)} })

\* the host's blockquote rule up to its interior
blockquote(st, rules, startLine, endLine) ==
  IF blockquoteSilent(st, startLine).ok
  THEN The({
         [ok |-> TRUE,
          st |-> push([scan.st EXCEPT !.blkIndent = 0], "blockquote", <<>>, 1, <<">">>,
                      <<>>, <<startLine, 0>>),
          frame |-> [kind |-> "blockquote", startLine |-> startLine,
                     endLine |-> endLine, old |-> scan.old,
                     oldLineMax |-> st.lineMax, oldParentType |-> st.parentType,
                     oldIndent |-> st.blkIndent,
                     from |-> startLine, to |-> scan.nextLine],
          calls |-> scan.calls]
         : scan \in {blockquoteScan([st EXCEPT !.parentType = "blockquote"], rules,
                                    startLine, endLine, FALSE, <<>>, {})} })
  ELSE [ok |-> FALSE, st |-> st, frame |-> NoFrame, calls |-> {}]

RECURSIVE restoreRows(_, _)
restoreRows(st, old) ==
  IF old = <<>> THEN st
  ELSE restoreRows([st EXCEPT !.bMarks = SetAt(@, Head(old).line, Head(old).bMarks),
                              !.tShift = SetAt(@, Head(old).line, Head(old).tShift),
                              !.sCount = SetAt(@, Head(old).line, Head(old).sCount)],
                   Tail(old))

\* the host's blockquote rule after its interior
blockquoteResume(st, frame) ==
  LET closed == push(st, "blockquote", <<>>, -1, <<">">>, <<>>, <<>>)
      rows == restoreRows(closed, frame.old)
  IN  [rows EXCEPT !.lineMax = frame.oldLineMax,
                   !.parentType = frame.oldParentType,
                   !.blkIndent = frame.oldIndent]

\* a rule called by the tokenize loop (not silent)
callRule(st, rules, rule, line, endLine) ==
  LET plain(S) == The({[ok |-> res.ok, st |-> res.st, frame |-> res.frame, calls |-> {}]
                       : res \in S})
  IN  CASE rule.kind = "container" -> plain({container(st, rule, line, endLine, FALSE)})
        [] rule.kind = "callout" -> plain({obsidianCallout(st, rule, line, endLine, FALSE)})
        [] rule.kind = "blockquote" -> blockquote(st, rules, line, endLine)
        [] rule.kind = "paragraph" -> paragraph(st, rules, line, endLine)
        [] OTHER -> plain({Miss(st)})

RECURSIVE tryRules(_, _, _, _, _, _)
\* the rule chain at a line: the first rule that matches, and the calls made
tryRules(st, rules, i, line, endLine, acc) ==
  IF i > Len(rules)
  THEN [ok |-> FALSE, st |-> st, frame |-> NoFrame, calls |-> acc, rule |-> Rule("none", <<>>, <<>>, <<>>, {})]
  ELSE The({
         IF res.ok
         THEN [ok |-> TRUE, st |-> res.st, frame |-> res.frame,
               calls |-> acc \cup res.calls, rule |-> rules[i]]
         ELSE tryRules(res.st, rules, i + 1, line, endLine,
                       acc \cup res.calls
                           \cup {MkCall(rules[i], st, line, endLine, FALSE, res)})
         : res \in {callRule(st, rules, rules[i], line, endLine)} })

(***************************************************************************)
(* Registration: the options, their validation, the rules added            *)
(***************************************************************************)

\* "note", "tip", "warning", "danger", "info"
defaultTypes ==
  << <<"n", "o", "t", "e">>, <<"t", "i", "p">>,
     <<"w", "a", "r", "n", "i", "n", "g">>, <<"d", "a", "n", "g", "e", "r">>,
     <<"i", "n", "f", "o">> >>

\* the block ruler and the renderer rules of a fresh parser
HostAlt == {"paragraph", "reference", "blockquote", "list"}

NewParser ==
  [ruler |-> << Rule("fence", <<>>, <<>>, <<>>, HostAlt),
                Rule("blockquote", <<>>, <<>>, <<>>, HostAlt),
                Rule("paragraph", <<>>, <<>>, <<>>, {}) >>,
   rules |-> {},
   installed |-> <<>>]

isNonEmptyString(value) == Len(value) > 0

\* an entry of an icon map: its key, its value and whether the value is a string
Icon(key, value) == [key |-> key, value |-> value, string |-> TRUE]

\* the emoji of the five default types, by code point
defaultIcons ==
  << Icon(defaultTypes[1], "U+1F4DD"), Icon(defaultTypes[2], "U+1F4A1"),
     Icon(defaultTypes[3], "U+26A0"), Icon(defaultTypes[4], "U+1F6A8"),
     Icon(defaultTypes[5], "U+2139") >>

defaultLucideIcons ==
  << Icon(defaultTypes[1], "LuStickyNote"), Icon(defaultTypes[2], "LuLightbulb"),
     Icon(defaultTypes[3], "LuTriangleAlert"), Icon(defaultTypes[4], "LuCircleAlert"),
     Icon(defaultTypes[5], "LuInfo") >>

\* an icon map that is neither a plain object nor a boolean
NotAnObject == [type |-> "other", value |-> FALSE, entries |-> <<>>]

\* an icon map given as an object
IconMap(entries) == [type |-> "object", value |-> FALSE, entries |-> entries]

\* lucideIcons given as a boolean
Flag(value) == [type |-> "boolean", value |-> value, entries |-> <<>>]

isPlainObject(value) == value.type = "object"

\* an entry of an icon map is refused
badEntry(entries) ==
  \E i \in 1..Len(entries) : ~isNonEmptyString(entries[i].key) \/ ~entries[i].string

\* validateIcons throws
validateIcons(icons) == ~isPlainObject(icons) \/ badEntry(icons.entries)

\* validateLucideIcons throws
validateLucideIcons(lucideIcons) ==
  /\ lucideIcons.type # "boolean"
  /\ ~isPlainObject(lucideIcons) \/ badEntry(lucideIcons.entries)

\* validateTypes that looks at the first type only
validateTypesFirstOnly(types) == Len(types) > 0 /\ ~isNonEmptyString(types[1])

\* validateTypes throws
validateTypes(types) == \E i \in 1..Len(types) : ~isNonEmptyString(types[i])

\* validateRenderPair without the test for a close that lacks its open
validateRenderPairOpenOnly(key, pair) ==
  LET hasOpen == pair.open # "undefined"
      hasClose == pair.close # "undefined"
  IN  \/ ~isNonEmptyString(key)
      \/ hasOpen /\ ~hasClose
      \/ hasOpen /\ pair.open # "function"
      \/ hasClose /\ hasOpen /\ pair.close # "function"

\* validateRenderPair throws; open and close are "undefined", "function" or "other"
validateRenderPair(key, pair) ==
  LET hasOpen == pair.open # "undefined"
      hasClose == pair.close # "undefined"
  IN  \/ ~isNonEmptyString(key)
      \/ hasOpen /\ ~hasClose
      \/ hasClose /\ ~hasOpen
      \/ hasOpen /\ pair.open # "function"
      \/ hasClose /\ pair.close # "function"

\* validateCustomRenders throws
validateCustomRenders(customRenders) ==
  \E i \in 1..Len(customRenders) : validateRenderPair(customRenders[i].key, customRenders[i])

\* validatePluginOptions throws
validatePluginOptions(o) ==
  \/ "types" \in o.has /\ validateTypes(o.types)
  \/ "marker" \in o.has /\ ~isNonEmptyString(o.marker)
  \/ "icons" \in o.has /\ validateIcons(o.icons)
  \/ "lucideIcons" \in o.has /\ validateLucideIcons(o.lucideIcons)
  \/ "obsidianStyle" \in o.has /\ "obsidianStyle" \in o.notBoolean
  \/ "docusaurusStyle" \in o.has /\ "docusaurusStyle" \in o.notBoolean
  \/ "customRenders" \in o.has /\ validateCustomRenders(o.customRenders)

\* validateComplementaryOptions throws
validateComplementaryOptions(obsidianStyle, docusaurusStyle) ==
  ~obsidianStyle /\ ~docusaurusStyle

\* createObsidianCalloutRule throws
createObsidianCalloutRule(types) ==
  Len(types) = 0 \/ \E i \in 1..Len(types) : ~isNonEmptyString(types[i])

\* ruler.before(name, rule): the rule put in front of the named one
before(ruler, kind, rule) ==
  LET at == CHOOSE i \in 1..Len(ruler) :
              ruler[i].kind = kind /\ \A j \in 1..(i - 1) : ruler[j].kind # kind
  IN  SubSeq(ruler, 1, at - 1) \o <<rule>> \o SubSeq(ruler, at, Len(ruler))

\* customRenders[type] holds both an open and a close
hasCustomPair(customRenders, type) ==
  \E i \in 1..Len(customRenders) :
    /\ customRenders[i].key = type
    /\ customRenders[i].open = "function"
    /\ customRenders[i].close = "function"

\* {...defaults, ...given}[type]: the last entry of the key, if any
iconOf(entries, type) ==
  IF \E i \in 1..Len(entries) : entries[i].key = type
  THEN entries[CHOOSE i \in 1..Len(entries) :
                 /\ entries[i].key = type
                 /\ \A j \in (i + 1)..Len(entries) : entries[j].key # type].value
  ELSE "undefined"

\* the renderer pair a type gets: the custom one, or the default one with
\* the icon it closes over
renderPair(type, iconOptions, customRenders) ==
  IF hasCustomPair(customRenders, type)
  THEN [custom |-> TRUE, icon |-> "undefined", isLucide |-> FALSE]
  ELSE IF iconOptions.useLucide
  THEN [custom |-> FALSE, icon |-> iconOf(iconOptions.lucideIcons, type), isLucide |-> TRUE]
  ELSE [custom |-> FALSE, icon |-> iconOf(iconOptions.emojiIcons, type), isLucide |-> FALSE]

\* the renderer rule of one side of a type
Renderer(type, side, pair) ==
  [type |-> type, side |-> side, custom |-> pair.custom, icon |-> pair.icon,
   isLucide |-> pair.isLucide]

\* registerRenderRules that installs over a pair already there
registerRenderRulesAgain(m, type, iconOptions, customRenders) ==
  [m EXCEPT !.rules = {r \in @ : r.type # type} \cup
                        {Renderer(type, "open", renderPair(type, iconOptions, customRenders)),
                         Renderer(type, "close", renderPair(type, iconOptions, customRenders))},
            !.installed = Append(@, type)]

\* installed: the types in the order their pairs were put in the table
registerRenderRules(m, type, iconOptions, customRenders) ==
  IF \E r \in m.rules : r.type = type /\ r.side = "open" THEN m
  ELSE [m EXCEPT !.rules = @ \cup
                   {Renderer(type, "open", renderPair(type, iconOptions, customRenders)),
                    Renderer(type, "close", renderPair(type, iconOptions, customRenders))},
                 !.installed = Append(@, type)]

\* createAdmonitionContainer throws
createAdmonitionContainer(name, marker) ==
  ~isNonEmptyString(name) \/ ~isNonEmptyString(marker)

RECURSIVE registerContainers(_, _, _, _, _, _)
\* the loop over the types of the fenced style: the parser it leaves and
\* whether it threw
registerContainers(m, types, i, marker, iconOptions, customRenders) ==
  IF i > Len(types) THEN [md |-> m, thrown |-> "none"]
  ELSE IF createAdmonitionContainer(types[i], marker) THEN [md |-> m, thrown |-> "TypeError"]
  ELSE registerContainers(
         registerRenderRules(
           [m EXCEPT !.ruler = before(@, "fence", Rule("container", types[i], marker, <<>>, HostAlt))],
           types[i], iconOptions, customRenders),
         types, i + 1, marker, iconOptions, customRenders)

RECURSIVE registerCalloutRenders(_, _, _, _, _)
\* the loop over the types of the blockquote style
registerCalloutRenders(m, types, i, iconOptions, customRenders) ==
  IF i > Len(types) THEN m
  ELSE registerCalloutRenders(registerRenderRules(m, types[i], iconOptions, customRenders),
                              types, i + 1, iconOptions, customRenders)

\* the option values after the defaults
optionTypes(o) == IF "types" \in o.has THEN o.types ELSE defaultTypes

optionMarker(o) == IF "marker" \in o.has THEN o.marker ELSE <<":">>

optionObsidianStyle(o) == IF "obsidianStyle" \in o.has THEN o.obsidianStyle ELSE TRUE

optionDocusaurusStyle(o) == IF "docusaurusStyle" \in o.has THEN o.docusaurusStyle ELSE TRUE

optionCustomRenders(o) == IF "customRenders" \in o.has THEN o.customRenders ELSE <<>>

optionIcons(o) == IF "icons" \in o.has THEN o.icons ELSE IconMap(defaultIcons)

optionLucideIcons(o) == IF "lucideIcons" \in o.has THEN o.lucideIcons ELSE Flag(FALSE)

\* the merged icon maps and whether the Lucide ones are used
iconOptions(o) ==
  [emojiIcons |-> defaultIcons \o optionIcons(o).entries,
   lucideIcons |-> IF isPlainObject(optionLucideIcons(o))
                   THEN defaultLucideIcons \o optionLucideIcons(o).entries
                   ELSE defaultLucideIcons,
   useLucide |-> optionLucideIcons(o) = Flag(TRUE) \/ isPlainObject(optionLucideIcons(o))]

\* md.use(admonitionPlugin, o): the parser it leaves and the error it throws
\* ("none" when it returns); every throw of the source is a TypeError
admonitionPlugin(m, o) ==
  LET withContainers ==
        IF optionDocusaurusStyle(o)
        THEN registerContainers(m, optionTypes(o), 1, optionMarker(o), iconOptions(o),
                                optionCustomRenders(o))
        ELSE [md |-> m, thrown |-> "none"]
      withCallout ==
        registerCalloutRenders(
          [withContainers.md EXCEPT !.ruler =
             before(@, "blockquote", Rule("callout", <<>>, <<>>, optionTypes(o), HostAlt))],
          optionTypes(o), 1, iconOptions(o), optionCustomRenders(o))
  IN  IF validatePluginOptions(o) THEN [md |-> m, thrown |-> "TypeError"]
      ELSE IF validateComplementaryOptions(optionObsidianStyle(o), optionDocusaurusStyle(o))
      THEN [md |-> m, thrown |-> "TypeError"]
      ELSE IF withContainers.thrown # "none" \/ ~optionObsidianStyle(o) THEN withContainers
      ELSE IF createObsidianCalloutRule(optionTypes(o))
      THEN [md |-> withContainers.md, thrown |-> "TypeError"]
      ELSE [md |-> withCallout, thrown |-> "none"]

(***************************************************************************)
(* The configurations and the documents                                    *)
(***************************************************************************)

\* the longest document, in lines
MaxLines == 3

NoOptions ==
  [has |-> {}, notBoolean |-> {}, types |-> <<>>, marker |-> <<>>,
   icons |-> IconMap(<<>>), lucideIcons |-> Flag(FALSE), obsidianStyle |-> TRUE,
   docusaurusStyle |-> TRUE, customRenders |-> <<>>]

With(o, name, value) == [o EXCEPT ![name] = value, !.has = @ \cup {name}]

Note == defaultTypes[1]

Pair(key, open, close) == [key |-> key, open |-> open, close |-> close]

\* a two-character marker and two short type names, one of them beginning
\* with the marker
CustomOptions ==
  With(With(NoOptions, "marker", <<"a", "b">>), "types", << <<"n", "o">>, <<"a", "b", "a">> >>)

\* a marker that begins with a space
SpaceOptions == With(NoOptions, "marker", <<" ", ":">>)

ValidOptions ==
  { NoOptions,
    CustomOptions,
    SpaceOptions,
    With(NoOptions, "obsidianStyle", FALSE),
    With(NoOptions, "docusaurusStyle", FALSE),
    With(NoOptions, "customRenders", <<Pair(Note, "function", "function")>>),
    With(NoOptions, "icons", IconMap(<<Icon(Note, "!")>>)),
    With(NoOptions, "lucideIcons", Flag(TRUE)),
    With(NoOptions, "lucideIcons", IconMap(<<Icon(Note, "LuPen")>>)) }

InvalidOptions ==
  { With(NoOptions, "customRenders", <<Pair(Note, "function", "undefined")>>),
    With(NoOptions, "customRenders", <<Pair(Note, "undefined", "function")>>),
    With(NoOptions, "customRenders",
         <<Pair(Note, "function", "function"), Pair(defaultTypes[2], "undefined", "function")>>),
    With(With(NoOptions, "obsidianStyle", FALSE), "docusaurusStyle", FALSE),
    With(NoOptions, "types", <<>>),
    With(NoOptions, "types", << <<>> >>),
    With(NoOptions, "types", <<Note, <<>> >>),
    With(NoOptions, "marker", <<>>),
    With(NoOptions, "icons", NotAnObject),
    With(NoOptions, "icons", IconMap(<<Icon(Note, "!"), Icon(<<>>, "!")>>)),
    With(NoOptions, "icons", IconMap(<<[Icon(Note, "!") EXCEPT !.string = FALSE]>>)),
    With(NoOptions, "lucideIcons", NotAnObject),
    With(NoOptions, "lucideIcons", IconMap(<<[Icon(Note, "LuPen") EXCEPT !.string = FALSE]>>)),
    [With(NoOptions, "obsidianStyle", TRUE) EXCEPT !.notBoolean = {"obsidianStyle"}],
    [With(NoOptions, "docusaurusStyle", TRUE) EXCEPT !.notBoolean = {"docusaurusStyle"}] }

Options == ValidOptions \cup InvalidOptions

\* the lines about fences, for a marker m and a type t
FenceLines(m, t) ==
  { Rep(m, 3) \o t,
    Rep(m, 4) \o t \o <<" ", "x">>,
    Rep(m, 3),
    Rep(m, 4) \o <<" ">>,
    Rep(m, 2),
    <<" ">> \o Rep(m, 3) \o t,
    <<" ">> \o Rep(m, 3),
    <<"x">>,
    <<>> }

\* the lines about callouts, for a type t
CalloutLines(t) ==
  { <<">", " ", "[", "!">> \o t \o <<"]">>,
    <<">", "[", "!", "N", "O", "T", "E", "]", " ", "x">>,
    <<">", " ", "[", "!", "x", "]">>,
    <<">", " ", "[", "!", "]">>,
    <<">", " ", "[", "!">> \o t,
    <<">", " ", "x">>,
    <<">">>,
    <<"x">>,
    <<>> }

\* the lines that nest one block in another, for a marker m and types t, u
MixedLines(m, t, u) ==
  { Rep(m, 3) \o t,
    Rep(m, 3),
    <<" ">> \o Rep(m, 3) \o u,
    <<">", " ", "[", "!">> \o t \o <<"]">>,
    <<" ", ">", " ", "[", "!">> \o u \o <<"]">>,
    <<">", " ", "x">>,
    <<" ", ">", " ", "x">>,
    <<">", " ">> \o Rep(m, 3) \o u,
    <<">", " ", ">", " ", "[", "!">> \o u \o <<"]">>,
    <<"x">> }

\* the documents of at most MaxLines lines over an alphabet
DocsOver(lines) == UNION {[1..n -> lines] : n \in 1..MaxLines}

\* the documents parsed under a configuration
DocsFor(o) ==
  LET m == optionMarker(o)
      t == optionTypes(o)[1]
      u == optionTypes(o)[2]
  IN  IF o.has = {}
      THEN DocsOver(FenceLines(m, t)) \cup DocsOver(CalloutLines(t))
             \cup DocsOver(MixedLines(m, t, u))
      ELSE IF o = CustomOptions
      THEN DocsOver({Rep(m, 3) \o t, Rep(m, 3) \o u, Rep(m, 3), Rep(m, 3) \o <<m[1]>>,
                     Rep(m, 2) \o <<m[1]>> \o t, <<"x">>})
      ELSE IF o.has \subseteq {"icons", "lucideIcons", "customRenders"}
      THEN DocsOver({Rep(m, 3) \o t, Rep(m, 2) \o t, <<"x">>})
      ELSE IF "marker" \in o.has
      THEN DocsOver({Rep(m, 3) \o t, Rep(m, 3), <<">", " ">> \o Rep(m, 3) \o t,
                     <<">", " ", "[", "!">> \o t \o <<"]">>, <<"x">>})
      ELSE DocsOver({Rep(m, 3) \o t, Rep(m, 3), <<">", " ", "[", "!">> \o t \o <<"]">>,
                     <<">", " ", "x">>, <<"x">>})

(***************************************************************************)
(* The state machine                                                       *)
(***************************************************************************)

NoRet == [kind |-> "none"]

\* a plugin rule's return from a match: the context it was entered with and
\* the context it hands back
MkRet(frame, entered, left) ==
  [kind |-> frame.kind, frame |-> frame, before |-> entered, after |-> left]

\* no call of the marker matcher on its own has been made
NoProbe == [called |-> FALSE]

Init ==
  /\ md = NewParser
  /\ prior = NewParser
  /\ opts = NoOptions
  /\ thrown = "none"
  /\ phase = "new"
  /\ state = NoState
  /\ stack = <<>>
  /\ calls = {}
  /\ ret = NoRet
  /\ probe = NoProbe

\* md.use(admonitionPlugin, o), on a fresh parser or on the parser of an
\* earlier md.use; prior is the parser as the call found it
Use(o) ==
  /\ phase \in {"new", "used"}
  /\ \E r \in {admonitionPlugin(md, o)} :
       md' = r.md /\ thrown' = r.thrown
  /\ prior' = md
  /\ opts' = o
  /\ phase' = IF phase = "new" THEN "used" ELSE "reused"
  /\ UNCHANGED <<state, stack, calls, ret, probe>>

\* md.parse(src): the context built, the root tokenize loop started
Parse(d) ==
  /\ phase = "used"
  /\ thrown = "none"
  /\ LET st == StateBlock(Join(d, <<"\n">>))
     IN  /\ state' = st
         /\ stack' = IF st.src = <<>> THEN <<>>
                     ELSE <<[kind |-> "tokenize", line |-> st.line, endLine |-> st.lineMax]>>
         /\ phase' = IF st.src = <<>> THEN "done" ELSE "parsing"
  /\ calls' = {}
  /\ ret' = NoRet
  /\ UNCHANGED <<probe, md, prior, opts, thrown>>

Top == stack[Len(stack)]

Pop == SubSeq(stack, 1, Len(stack) - 1)

\* the tokenize loop leaves: the range is used up, or the line is outdented
loopEnds(st, f) ==
  \/ f.line >= f.endLine
  \/ skipEmptyLines(st, f.line) >= f.endLine
  \/ NumAt(st.sCount, skipEmptyLines(st, f.line)) < st.blkIndent

\* the loop after a rule matched: the cursor moves over one blank line
afterRule(st, endLine) ==
  IF st.line < endLine /\ isEmpty(st, st.line) THEN [st EXCEPT !.line = @ + 1] ELSE st

\* the context, the loop's frame and the chain's outcome at the loop's line
atLine(st, f) == [st EXCEPT !.line = skipEmptyLines(st, f.line)]

chain(st, f) ==
  The({ tryRules(at, md.ruler, 1, at.line, f.endLine, {}) : at \in {atLine(st, f)} })

TokenizeEnd ==
  /\ phase = "parsing"
  /\ Top.kind = "tokenize"
  /\ loopEnds(state, Top)
  /\ state' = IF Top.line >= Top.endLine THEN state ELSE atLine(state, Top)
  /\ stack' = Pop
  /\ phase' = IF Pop = <<>> THEN "done" ELSE "parsing"
  /\ calls' = {}
  /\ ret' = NoRet
  /\ UNCHANGED <<probe, md, prior, opts, thrown>>

\* the loop is at a line some rule takes
atRule ==
  /\ phase = "parsing"
  /\ Top.kind = "tokenize"
  /\ ~loopEnds(state, Top)

\* the rule r.rule matched and has an interior to tokenize first
Enter(kind, r) ==
  /\ r.ok
  /\ r.frame.kind = kind
  /\ state' = r.st
  /\ stack' = Pop \o << [Top EXCEPT !.line = atLine(state, Top).line],
                        [frame |-> r.frame, kind |-> kind, entry |-> atLine(state, Top)],
                        [kind |-> "tokenize", line |-> r.frame.from,
                         endLine |-> r.frame.to] >>
  /\ calls' = r.calls
  /\ ret' = NoRet
  /\ UNCHANGED <<probe, md, prior, opts, thrown, phase>>

\* the rule r.rule matched and is over in one go
Whole(kind, r) ==
  /\ r.ok
  /\ r.frame.kind = kind
  /\ \E left \in {afterRule(r.st, Top.endLine)} :
       /\ state' = left
       /\ stack' = Pop \o <<[Top EXCEPT !.line = left.line]>>
  /\ calls' = r.calls
  /\ ret' = IF kind = "calloutDone"
            THEN MkRet(r.frame, atLine(state, Top), r.st) ELSE NoRet
  /\ UNCHANGED <<probe, md, prior, opts, thrown, phase>>

\* the interior of a rule is tokenized: the rule goes on to its end
Return(kind, resumed) ==
  /\ phase = "parsing"
  /\ Top.kind = kind
  /\ \E left \in {resumed} :
       LET below == stack[Len(stack) - 1]
       IN  /\ state' = afterRule(left, below.endLine)
           /\ stack' = SubSeq(stack, 1, Len(stack) - 2)
                         \o <<[below EXCEPT !.line = afterRule(left, below.endLine).line]>>
           /\ ret' = IF kind = "blockquote" THEN NoRet
                     ELSE MkRet(Top.frame, Top.entry, left)
  /\ calls' = {}
  /\ UNCHANGED <<probe, md, prior, opts, thrown, phase>>

ContainerEnter(r) == Enter("container", r)

CalloutEnter(r) == Enter("callout", r)

BlockquoteEnter(r) == Enter("blockquote", r)

CalloutWithoutBody(r) == Whole("calloutDone", r)

Paragraph(r) == Whole("none", r)

\* one turn of the tokenize loop: the rules are tried in ruler order at the
\* loop's line and the first that matches acts
TokenizeRule ==
  /\ atRule
  /\ \E r \in {chain(state, Top)} :
       \/ ContainerEnter(r)
       \/ CalloutEnter(r)
       \/ BlockquoteEnter(r)
       \/ CalloutWithoutBody(r)
       \/ Paragraph(r)

ContainerReturn == Return("container", containerResume(state, Top.frame))

CalloutReturn == Return("callout", calloutResume(state, Top.frame))

BlockquoteReturn == Return("blockquote", blockquoteResume(state, Top.frame))

Next ==
  \/ \E o \in Options : Use(o)
  \/ phase = "used" /\ thrown = "none" /\ \E d \in DocsFor(opts) : Parse(d)
  \/ TokenizeEnd
  \/ TokenizeRule
  \/ ContainerReturn
  \/ CalloutReturn
  \/ BlockquoteReturn

Spec == Init /\ [][Next]_vars

\* the longest buffer the marker matcher is called on alone
MaxBuffer == 3

\* the buffers, of the two characters of the marker "ab"
Buffers == UNION {[1..n -> {"a", "b"}] : n \in 0..MaxBuffer}

\* a call matchMarkerSequence(state, position, max, marker, marker.length,
\* startPosition) on a state of the given buffer
Match(buffer, position, max, marker, startPosition) ==
  /\ phase = "new"
  /\ ~probe.called
  /\ probe' = [called |-> TRUE, buffer |-> buffer, position |-> position, max |-> max,
               marker |-> marker, startPosition |-> startPosition,
               result |-> matchMarkerSequence([src |-> buffer], position, max, marker,
                                              Len(marker), startPosition)]
  /\ UNCHANGED <<md, prior, opts, thrown, phase, state, stack, calls, ret>>

MatchNext ==
  \E buffer \in Buffers, marker \in {<<"a">>, <<"a", "b">>} :
    \E position, max, startPosition \in 0..(Len(buffer) + 1) :
      Match(buffer, position, max, marker, startPosition)

\* the marker matcher on its own, over all the small inputs
MatchSpec == Init /\ [][MatchNext]_vars

\* a step of a running parse
Run ==
  \/ TokenizeEnd
  \/ TokenizeRule
  \/ ContainerReturn
  \/ CalloutReturn
  \/ BlockquoteReturn

\* the longest document of the runs that are followed to their end
MaxLiveLines == 2

\* the lines of those documents: openers, closers, headers, quoted and plain
\* lines, for a marker m and types t, u
LiveLines(m, t, u) ==
  { Rep(m, 3) \o t,
    <<" ">> \o Rep(m, 3) \o u,
    Rep(m, 3),
    <<">", " ", "[", "!">> \o t \o <<"]">>,
    <<">", " ", ">", " ", "[", "!">> \o u \o <<"]">>,
    <<">", " ", "x">>,
    <<"x">> }

LiveDocsFor(o) ==
  UNION {[1..n -> LiveLines(optionMarker(o), optionTypes(o)[1], optionTypes(o)[2])]
           : n \in 1..MaxLiveLines}

LiveNext ==
  \/ \E o \in Options : Use(o)
  \/ phase = "used" /\ thrown = "none" /\ \E d \in LiveDocsFor(opts) : Parse(d)
  \/ Run

\* md.parse is a sequential call: once started it keeps running
LiveSpec == Init /\ [][LiveNext]_vars /\ WF_vars(Run)

(***************************************************************************)
(* Properties                                                              *)
(***************************************************************************)

\* the rules of the plugin that matched and are waiting for their interior or
\* have just returned, each with the context it was entered with
Frames(kinds) ==
  {[frame |-> stack[i].frame, entry |-> stack[i].entry]
     : i \in {j \in 1..Len(stack) : stack[j].kind \in kinds}}
  \cup (IF ret.kind \in kinds THEN {[frame |-> ret.frame, entry |-> ret.before]} ELSE {})

Returned(kinds) == ret.kind \in kinds

PluginKinds == {"container", "callout", "calloutDone"}

CalloutKinds == {"callout", "calloutDone"}

IsOpen(tk) == tk.kind = "admonition" /\ tk.nesting = 1

IsClose(tk) == tk.kind = "admonition" /\ tk.nesting = -1

RECURSIVE Nested(_, _, _, _)
\* the tokens from the i-th on pair up like parentheses: a close token ends
\* the last open one, of its kind, name and level, and every token lies at the
\* depth of the opens around it (base levels above the root)
Nested(tokens, i, open, base) ==
  IF i > Len(tokens) THEN open = <<>>
  ELSE IF tokens[i].nesting = 1
  THEN /\ tokens[i].level = base + Len(open)
       /\ Nested(tokens, i + 1, Append(open, tokens[i]), base)
  ELSE IF tokens[i].nesting = -1
  THEN /\ open # <<>>
       /\ open[Len(open)].kind = tokens[i].kind
       /\ open[Len(open)].name = tokens[i].name
       /\ open[Len(open)].level = tokens[i].level
       /\ Nested(tokens, i + 1, SubSeq(open, 1, Len(open) - 1), base)
  ELSE /\ tokens[i].level = base + Len(open)
       /\ Nested(tokens, i + 1, open, base)

Count(tokens, name, nesting) ==
  Cardinality({i \in 1..Len(tokens) :
                 /\ tokens[i].kind = "admonition"
                 /\ tokens[i].name = name
                 /\ tokens[i].nesting = nesting})

\* C1: after a whole parse the opens and closes of every type are equal in
\* number and all tokens pair up without crossing, each close at the level of
\* its open; and a rule that returns from a match has added to the tokens it
\* found one open token, the tokens of the interior, themselves paired, and one
\* close token of the same type and level
C1_BalancedTokens ==
  /\ phase = "done" =>
        /\ Nested(state.tokens, 1, <<>>, 0)
        /\ \A i \in 1..Len(state.tokens) :
             Count(state.tokens, state.tokens[i].name, 1)
               = Count(state.tokens, state.tokens[i].name, -1)
  /\ Returned(PluginKinds) =>
        LET found == ret.before.tokens
            left == ret.after.tokens
            first == Len(found) + 1
        IN  /\ Len(left) >= first + 1
            /\ SubSeq(left, 1, Len(found)) = found
            /\ IsOpen(left[first])
            /\ IsClose(left[Len(left)])
            /\ left[first].name = left[Len(left)].name
            /\ left[first].level = left[Len(left)].level
            /\ left[first].level = ret.before.level
            /\ Nested(SubSeq(left, first + 1, Len(left) - 1), 1, <<>>, ret.before.level + 1)

\* a parse that ended with a callout inside a fenced block
C1_Witness ==
  /\ phase = "done"
  /\ \E i, j \in 1..Len(state.tokens) :
       /\ i < j
       /\ IsOpen(state.tokens[i]) /\ state.tokens[i].markup # <<">">>
       /\ IsOpen(state.tokens[j]) /\ state.tokens[j].markup = <<">">>
       /\ state.tokens[j].level = state.tokens[i].level + 1

\* C2: when the fenced rule or the callout rule returns from a match that was
\* not silent, parentType, lineMax and blkIndent are what they were when the
\* rule was entered
C2_ContextRestored ==
  Returned(PluginKinds) =>
    Changed(ret.before, ret.after) \cap {"parentType", "lineMax", "blkIndent"} = {}

\* a fenced block inside a fenced block returns: it was entered under a
\* parent other than the root and had narrowed lineMax and blkIndent
C2_Witness ==
  /\ Returned({"container"})
  /\ ret.before.parentType = "container"
  /\ ret.frame.to < ret.before.lineMax
  /\ getLineIndent(ret.before, ret.frame.startLine) > ret.before.blkIndent

\* C3: when the callout rule returns, from a match, from a silent call or
\* from a line it does not take, the buffer and the line table are the ones it
\* was entered with; while its body is tokenized the buffer is the body
C3_BufferRestored ==
  /\ Returned(CalloutKinds) =>
        Changed(ret.before, ret.after) \cap {"src", "bMarks", "eMarks", "tShift", "sCount"} = {}
  /\ \A c \in calls :
       c.rule.kind = "callout" =>
         c.changed \cap {"src", "bMarks", "eMarks", "tShift", "sCount"} = {}
  /\ \A i \in 1..Len(stack) :
       stack[i].kind = "callout" /\ i + 1 = Len(stack) =>
         state.src = Join(stack[i].frame.contentLines, <<"\n">>)

\* a callout whose body holds a callout returns
C3_Witness ==
  /\ Returned({"callout"})
  /\ ret.before.src # Join(ret.frame.contentLines, <<"\n">>)
  /\ \E i \in 1..Len(ret.after.tokens) :
       /\ IsOpen(ret.after.tokens[i])
       /\ ret.after.tokens[i].level = ret.before.level + 1

\* C4: a call of either rule in silent mode changes no field of the context:
\* not the tokens, not the cursor, not parentType, lineMax, blkIndent, not
\* the buffer, not the line table
C4_SilentChangesNothing ==
  \A c \in calls :
    c.silent /\ c.rule.kind \in {"container", "callout"} => c.changed = {}

\* a paragraph line at which both rules were asked in silent mode, and one
\* of them matched
C4_Witness ==
  /\ \E c \in calls : c.silent /\ c.rule.kind = "container" /\ c.ok
  /\ \E c \in calls : c.silent /\ c.rule.kind = "callout" /\ ~c.ok

\* s begins with p
StartsWith(s, p) == Len(s) >= Len(p) /\ SubSeq(s, 1, Len(p)) = p

Drop(s, n) == SubSeq(s, n + 1, Len(s))

IsBlankText(s) == \A i \in 1..Len(s) : isSpace(s[i])

RECURSIVE DropSpaces(_)
DropSpaces(s) == IF s # <<>> /\ isSpace(Head(s)) THEN DropSpaces(Tail(s)) ELSE s

\* p is the type name, white space before it allowed, the line end or a
\* space after it
NamesType(p, type) ==
  LET q == DropSpaces(p)
  IN  /\ StartsWith(q, type)
      /\ (Len(q) = Len(type) \/ q[Len(type) + 1] = " ")

\* text is k repetitions of the marker and then the type name
OpensWith(text, marker, k, type) ==
  /\ StartsWith(text, Rep(marker, k))
  /\ NamesType(Drop(text, k * Len(marker)), type)

\* text is exactly k repetitions of the marker, no further one
RunOf(text, marker, k) ==
  /\ StartsWith(text, Rep(marker, k))
  /\ ~StartsWith(Drop(text, k * Len(marker)), marker)

\* the repetitions a line can hold
Reps(text, marker) == 0..(Len(text) \div Len(marker))

\* line is k or more repetitions of the marker and then white space only, at
\* the given indent
ClosesWith(st, line, marker, k, indent) ==
  /\ getLineIndent(st, line) = indent
  /\ \E n \in Reps(LineText(st, line), marker) :
       /\ n >= k
       /\ StartsWith(LineText(st, line), Rep(marker, n))
       /\ IsBlankText(Drop(LineText(st, line), n * Len(marker)))

\* line holds text and is indented less
Outdented(st, line, indent) ==
  /\ ~IsBlankText(LineRaw(st, line))
  /\ getLineIndent(st, line) < indent

\* the lines strictly between two
Between(a, b) == (a + 1)..(b - 1)

\* the fenced blocks open or just returned
Blocks == Frames({"container"})

MarkerOf(b) == b.frame.rule.marker

OpenerIndent(b) == getLineIndent(b.entry, b.frame.startLine)

Boundary(b) ==
  LET stops == {j \in Between(b.frame.startLine, b.frame.endLine) :
                  Outdented(b.entry, j, OpenerIndent(b))}
  IN  IF stops = {} THEN b.frame.endLine
      ELSE CHOOSE j \in stops : \A i \in stops : j <= i

\* no line of the scope after the opener closes the block
Unclosed(b, upTo) ==
  \A j \in Between(b.frame.startLine, upTo) :
    ~ClosesWith(b.entry, j, MarkerOf(b), b.frame.markerCount, OpenerIndent(b))

\* the fenced block that has just returned
ReturnedBlock == [frame |-> ret.frame, entry |-> ret.before]

\* the statement of C6 as the claim words it: with no closing line in the
\* scope the interior runs up to the scope boundary
C6_AsClaimed ==
  \A b \in Blocks :
    Unclosed(b, b.frame.endLine) =>
      /\ ~b.frame.closingFence.found
      /\ b.frame.to = b.frame.endLine

\* C6 (amended): an opener with no closing line before the end of the scope
\* or, when it comes first, before the first line that holds text and is
\* indented less than the opener, still matches: the interior is tokenized
\* from the line after the opener up to that line or that end, the rule adds
\* one open and one close token around it, and leaves the cursor there
C6_AutoClose ==
  /\ \A b \in Blocks :
       Unclosed(b, Boundary(b)) =>
         /\ ~b.frame.closingFence.found
         /\ b.frame.from = b.frame.startLine + 1
         /\ b.frame.to = Boundary(b)
  /\ \A i \in 1..(Len(stack) - 1) :
       stack[i].kind = "container" /\ stack[i + 1].kind = "tokenize" =>
         /\ stack[i + 1].endLine = stack[i].frame.to
         /\ stack[i + 1].line >= stack[i].frame.from
  /\ (Returned({"container"}) /\ ~ret.frame.closingFence.found) =>
       LET first == Len(ret.before.tokens) + 1
           last == Len(ret.after.tokens)
       IN  /\ ret.after.line = ret.frame.to
           /\ SubSeq(ret.after.tokens, 1, first - 1) = ret.before.tokens
           /\ IsOpen(ret.after.tokens[first])
           /\ ret.after.tokens[first].name = ret.frame.rule.type
           /\ ret.after.tokens[first].map = <<ret.frame.startLine, ret.frame.to>>
           /\ IsClose(ret.after.tokens[last])
           /\ ret.after.tokens[last].name = ret.frame.rule.type
           /\ Nested(SubSeq(ret.after.tokens, first + 1, last - 1), 1, <<>>,
                     ret.before.level + 1)

\* a block without closing line returns, its interior of two lines
\* tokenized up to the end of the document
C6_Witness ==
  /\ Returned({"container"})
  /\ ~ret.frame.closingFence.found
  /\ ret.frame.to = ret.frame.endLine
  /\ ret.frame.to = ret.frame.startLine + 3
  /\ Len(ret.after.tokens) > Len(ret.before.tokens) + 2
  /\ Len(stack) = 1

\* C7: the close search never takes a line that holds text and is indented
\* less than the opener, whatever its text: it ends on the first such line
\* unless it found the closing line before, the interior ends there, and the
\* rule leaves the cursor on that line
C7_OutdentStops ==
  /\ \A b \in Blocks :
       \A j \in Between(b.frame.startLine, b.frame.endLine) :
         Outdented(b.entry, j, OpenerIndent(b)) =>
           /\ b.frame.closingFence.nextLine <= j
           /\ (b.frame.closingFence.nextLine = j) =>
                (~b.frame.closingFence.found /\ b.frame.to = j)
  /\ (/\ Returned({"container"})
      /\ ret.frame.closingFence.nextLine < ret.frame.endLine
      /\ Outdented(ret.before, ret.frame.closingFence.nextLine, OpenerIndent(ReturnedBlock)))
     => ret.after.line = ret.frame.closingFence.nextLine

\* an indented block returns whose search ended on a full marker run that is
\* indented less: the run did not close it and the cursor is on it
C7_Witness ==
  /\ Returned({"container"})
  /\ ret.frame.closingFence.nextLine < ret.frame.endLine
  /\ ~ret.frame.closingFence.found
  /\ LineRaw(ret.before, ret.frame.closingFence.nextLine) = Rep(ret.frame.rule.marker, 3)
  /\ ret.after.line = ret.frame.closingFence.nextLine

\* the callouts open or just returned
Callouts == Frames(CalloutKinds)

\* a line as the callout rule reads it begins with >
Quoted(st, line) == StartsWith(LineText(st, line), <<">">>)

\* a quoted line without its > and the one space after it
Unquoted(st, line) ==
  LET text == LineText(st, line)
  IN  IF Len(text) >= 2 /\ text[2] = " " THEN Drop(text, 2) ELSE Drop(text, 1)

\* the last line of the run of quoted lines after the header, below the end
\* of the scope
RunEnd(b) ==
  LET runs == {n \in b.frame.startLine..(b.frame.endLine - 1) :
                 \A j \in (b.frame.startLine + 1)..n : Quoted(b.entry, j)}
  IN  CHOOSE n \in runs : \A k \in runs : k <= n

\* C8: the body of a callout whose header is at line s is the longest run of
\* lines s+1, s+2, ... below the end of the scope that begin with > (after
\* their indentation, which the rule skips as it does for the header), each
\* without its > and one space after it, and the rule leaves the cursor on the
\* line after the last of them
C8_CalloutBody ==
  /\ \A b \in Callouts :
       /\ b.frame.nextLine = RunEnd(b) + 1
       /\ Len(b.frame.contentLines) = RunEnd(b) - b.frame.startLine
       /\ \A i \in 1..Len(b.frame.contentLines) :
            b.frame.contentLines[i] = Unquoted(b.entry, b.frame.startLine + i)
       /\ (b.frame.nextLine < b.frame.endLine) => ~Quoted(b.entry, b.frame.nextLine)
  /\ Returned(CalloutKinds) => ret.after.line = ret.frame.nextLine

\* a callout returns whose body is one line, > and a space taken off, with a
\* line after it that is not quoted
C8_Witness ==
  /\ Returned({"callout"})
  /\ ret.frame.contentLines = << <<"x">> >>
  /\ LineText(ret.before, ret.frame.startLine + 1) = <<">", " ", "x">>
  /\ ret.frame.nextLine < ret.frame.endLine
  /\ ret.after.line = ret.frame.startLine + 2

\* text is a callout header of one of the types: >, one space or none, [!,
\* the type in any case, ]
HeaderOf(text, types) ==
  \E p \in {2, 3} :
    /\ Len(text) >= p + 2
    /\ text[1] = ">"
    /\ (p = 3) => text[2] = " "
    /\ text[p] = "["
    /\ text[p + 1] = "!"
    /\ \E q \in (p + 2)..Len(text) :
         /\ text[q] = "]"
         /\ \A i \in (p + 2)..(q - 1) : text[i] # "]"
         /\ \E i \in 1..Len(types) :
              types[i] = ToLowerCase(SubSeq(text, p + 2, q - 1))

\* C9: the callout rule matches at a line exactly when the text between [!
\* and the first ] of the line, lower-cased, is one of the registered types;
\* at any other line it answers no and changes nothing, no token added
C9_CalloutMatch ==
  /\ \A c \in calls :
       c.rule.kind = "callout" =>
         /\ c.ok <=> HeaderOf(c.text, c.rule.types)
         /\ ~c.ok => c.changed = {}
  /\ \A b \in Callouts :
       /\ HeaderOf(LineText(b.entry, b.frame.startLine), b.frame.rule.types)
       /\ Includes(b.frame.rule.types, b.frame.calloutType)

\* a header written in upper case and without the space has matched
\* earlier in the parse, and the rule has just refused a header of an
\* unknown type, which the host's blockquote rule took
C9_Witness ==
  /\ \E i \in 1..Len(state.tokens) :
       /\ IsOpen(state.tokens[i])
       /\ state.tokens[i].info = <<"n", "o", "t", "e", " ", "x">>
  /\ \E c \in calls :
       /\ c.rule.kind = "callout"
       /\ ~c.ok
       /\ c.text = <<">", " ", "[", "!", "x", "]">>
  /\ Top.kind = "tokenize"
  /\ Len(stack) = 3
  /\ stack[2].kind = "blockquote"

\* a customRenders entry with one of open and close only
Asymmetric(o) ==
  /\ "customRenders" \in o.has
  /\ \E i \in 1..Len(o.customRenders) :
       (o.customRenders[i].open = "undefined") # (o.customRenders[i].close = "undefined")

\* C10: md.use with a customRenders entry that has only an open or only a
\* close throws a TypeError and leaves the parser as it found it, no block
\* rule and no render rule added; nothing is parsed after a throw
C10_AsymmetricRenders ==
  /\ (phase # "new" /\ Asymmetric(opts)) =>
       /\ thrown = "TypeError"
       /\ md = prior
       /\ phase \in {"used", "reused"}
  /\ thrown # "none" => phase \in {"used", "reused"} /\ state = NoState

\* md.use has thrown on a configuration whose first entry is complete and
\* whose second has a close only
C10_Witness ==
  /\ phase = "used"
  /\ thrown = "TypeError"
  /\ Len(opts.customRenders) = 2
  /\ opts.customRenders[2].open = "undefined"
  /\ opts.customRenders[2].close = "function"

\* an entry of an icon map with an empty key or a value that is no string
BadIcons(icons) ==
  \/ icons.type = "other"
  \/ /\ icons.type = "object"
     /\ \E i \in 1..Len(icons.entries) :
          icons.entries[i].key = <<>> \/ ~icons.entries[i].string

\* the configuration errors: a type name or a marker that is empty, an icon
\* map that is none, a style that is no boolean, a render pair with one side,
\* both styles off
ConfigurationError(o) ==
  \/ "types" \in o.has /\ \E i \in 1..Len(o.types) : o.types[i] = <<>>
  \/ "marker" \in o.has /\ o.marker = <<>>
  \/ "icons" \in o.has /\ (o.icons.type = "boolean" \/ BadIcons(o.icons))
  \/ "lucideIcons" \in o.has /\ BadIcons(o.lucideIcons)
  \/ o.has \cap o.notBoolean # {}
  \/ Asymmetric(o)
  \/ /\ {"obsidianStyle", "docusaurusStyle"} \subseteq o.has
     /\ ~o.obsidianStyle
     /\ ~o.docusaurusStyle

\* C11: md.use with a configuration error throws, every throw of md.use is
\* a TypeError, and after a throw the block ruler and the renderer rules of
\* the parser are the ones the call found
C11_ThrowAborts ==
  /\ (phase # "new" /\ ConfigurationError(opts)) => thrown = "TypeError"
  /\ thrown # "none" => thrown = "TypeError" /\ md = prior

\* md.use has thrown from the callout rule's factory, after the loop of the
\* fenced style, on a parser an earlier md.use had added rules to
C11_Witness ==
  /\ phase = "reused"
  /\ thrown = "TypeError"
  /\ "types" \in opts.has
  /\ opts.types = <<>>
  /\ prior # NewParser

\* the renderer rules of a type in a parser
RenderersOf(m, type) == {r \in m.rules : r.type = type}

\* the number of times a type's pair was put in the table
Installs(m, type) == Cardinality({i \in 1..Len(m.installed) : m.installed[i] = type})

\* the types a parser has block rules for
TypesOf(m) ==
  UNION { IF m.ruler[i].kind = "container" THEN {m.ruler[i].type}
          ELSE {m.ruler[i].types[j] : j \in 1..Len(m.ruler[i].types)}
          : i \in 1..Len(m.ruler) }

\* C12: a type that has an open render rule keeps its renderers when
\* md.use is applied again, whatever the second options are; every type a
\* parser has a rule for has one open and one close renderer, and its pair
\* was installed once, also when both styles registered the type
C12_FirstRegistrationWins ==
  /\ \A r \in prior.rules : RenderersOf(md, r.type) = RenderersOf(prior, r.type)
  /\ \A type \in TypesOf(md) :
       /\ Installs(md, type) = 1
       /\ \E open, close \in md.rules :
            /\ open.side = "open"
            /\ close.side = "close"
            /\ RenderersOf(md, type) = {open, close}
            /\ [open EXCEPT !.side = "close"] = close

\* md.use was applied with the defaults (both styles) and then with a custom
\* pair for "note": the renderers of "note" are still the default ones
C12_Witness ==
  /\ phase = "reused"
  /\ thrown = "none"
  /\ hasCustomPair(opts.customRenders, Note)
  /\ optionObsidianStyle(opts) /\ optionDocusaurusStyle(opts)
  /\ \E r \in md.rules : r.type = Note /\ ~r.custom /\ r.icon = "U+1F4DD"
  /\ Cardinality({i \in 1..Len(md.ruler) : md.ruler[i].kind = "callout"}) = 2

\* the first ] of a text
Bracket(text) == CHOOSE q \in 1..Len(text) : text[q] = "]" /\ \A i \in 1..(q - 1) : text[i] # "]"

\* the info of a header: the type in lower case, then a space and the
\* trimmed rest of the line if there is one
InfoOf(text) ==
  LET name == ToLowerCase(SubSeq(text, IF text[2] = " " THEN 5 ELSE 4, Bracket(text) - 1))
      title == Trim(Drop(text, Bracket(text)))
  IN  IF title = <<>> THEN name ELSE name \o <<" ">> \o title

\* the tokens a callout has added to the ones it found begin with its open
\* token: info from the header, markup >
OpenOf(b, tokens) ==
  LET at == Len(b.entry.tokens) + 1
  IN  /\ Len(tokens) >= at
      /\ SubSeq(tokens, 1, at - 1) = b.entry.tokens
      /\ IsOpen(tokens[at])
      /\ tokens[at].name = b.frame.calloutType
      /\ tokens[at].markup = <<">">>
      /\ tokens[at].info = InfoOf(LineText(b.entry, b.frame.startLine))

\* the positions after a callout's open token that hold a close token of its
\* own: its type, its level
ClosesOf(b, tokens) ==
  {i \in (Len(b.entry.tokens) + 2)..Len(tokens) :
     /\ IsClose(tokens[i])
     /\ tokens[i].name = b.frame.calloutType
     /\ tokens[i].level = tokens[Len(b.entry.tokens) + 1].level}

\* C13: the open token of a callout carries as info the type in lower case,
\* alone when the text after ] trims to nothing, else followed by one space
\* and the trimmed text; open and close token carry the markup >; as long as
\* the body is being tokenized there is no close token, and at the rule's
\* return the close token is the last token
C13_CalloutTokens ==
  /\ \A i \in 1..Len(stack) :
       stack[i].kind = "callout" =>
         /\ OpenOf(stack[i], state.tokens)
         /\ ClosesOf(stack[i], state.tokens) = {}
  /\ Returned(CalloutKinds) =>
       LET b == [frame |-> ret.frame, entry |-> ret.before]
       IN  /\ OpenOf(b, ret.after.tokens)
           /\ ClosesOf(b, ret.after.tokens) = {Len(ret.after.tokens)}
           /\ ret.after.tokens[Len(ret.after.tokens)].markup = <<">">>

\* a callout with a title and a body returns: the body's tokens lie between
\* its open and its close token
C13_Witness ==
  /\ Returned({"callout"})
  /\ LineText(ret.before, ret.frame.startLine) = <<">", "[", "!", "N", "O", "T", "E", "]", " ", "x">>
  /\ ret.after.tokens[Len(ret.before.tokens) + 1].info = <<"n", "o", "t", "e", " ", "x">>
  /\ Len(ret.after.tokens) > Len(ret.before.tokens) + 2

\* the frames of the plugin's rules that wait for their interior
Waiting == {i \in 1..Len(stack) : stack[i].kind \in {"container", "callout"}}

\* every interior handed to the host by a rule of the plugin is shorter than
\* the range the rule was called with, and no more rules of the plugin wait
\* than the document has lines
InteriorsShrink ==
  /\ \A i \in Waiting :
       /\ stack[i].frame.from <= stack[i].frame.to
       /\ stack[i].frame.to - stack[i].frame.from
            < stack[i].frame.endLine - stack[i].frame.startLine
  /\ stack # <<>> => Cardinality(Waiting) <= stack[1].endLine

\* C14: every interior tokenization started by the fenced rule or the
\* callout rule covers fewer lines than the range the rule was called with,
\* the number of nested calls is at most the number of lines, and every
\* parse that was started ends
C14_Terminates == []InteriorsShrink /\ ((phase = "parsing") ~> (phase = "done"))

\* a parse has ended that had a rule of the plugin waiting inside another
C14_Witness ==
  /\ phase = "done"
  /\ \E i, j \in 1..Len(state.tokens) :
       /\ i < j
       /\ IsOpen(state.tokens[i]) /\ IsOpen(state.tokens[j])
       /\ state.tokens[j].level = state.tokens[i].level + 1

RECURSIVE CyclicRun(_, _, _)
\* the length of the leading run of a text: the characters that go on
\* repeating the marker, from the n-th on
CyclicRun(text, marker, n) ==
  IF n < Len(text) /\ text[n + 1] = marker[(n % Len(marker)) + 1]
  THEN CyclicRun(text, marker, n + 1)
  ELSE n

\* C15: the fenced rule answers no at every line whose leading run of the
\* marker is shorter than 3 times the marker's length, so a run of two
\* repetitions and a part of a third opens no block; every block that is
\* open began at a line with a run of 3 repetitions or more
C15_ShortRunOpensNothing ==
  /\ \A c \in calls :
       /\ c.rule.kind = "container"
       /\ CyclicRun(c.text, c.rule.marker, 0) < MIN_MARKER_NUM * Len(c.rule.marker)
       => ~c.ok /\ c.changed = {}
  /\ \A b \in Blocks :
       CyclicRun(LineText(b.entry, b.frame.startLine), MarkerOf(b), 0)
         >= MIN_MARKER_NUM * Len(MarkerOf(b))

\* the rule of the type "no" with the marker "ab" has answered no at the
\* line "ababano": two repetitions and the first character of a third
C15_Witness ==
  \E c \in calls :
    /\ c.rule.kind = "container"
    /\ c.rule.marker = <<"a", "b">>
    /\ c.rule.type = <<"n", "o">>
    /\ c.text = <<"a", "b", "a", "b", "a", "n", "o">>
    /\ CyclicRun(c.text, c.rule.marker, 0) = 5
    /\ ~c.ok

\* the whole repetitions of the marker in the leading run of a text
WholeReps(text, marker) == CyclicRun(text, marker, 0) \div Len(marker)

\* line j can close the block b: the opener's indent, the marker's first
\* character first, as many whole repetitions as the opener or more, white
\* space only after them
CanClose(b, j) ==
  LET text == LineText(b.entry, j)
  IN  /\ getLineIndent(b.entry, j) = OpenerIndent(b)
      /\ text # <<>>
      /\ text[1] = MarkerOf(b)[1]
      /\ WholeReps(text, MarkerOf(b)) >= b.frame.markerCount
      /\ IsBlankText(Drop(text, WholeReps(text, MarkerOf(b)) * Len(MarkerOf(b))))

\* the lines after the opener and below the end of the scope that can close
\* the block and have no line before them that holds text and is indented less
Closers(b) ==
  {j \in Between(b.frame.startLine, b.frame.endLine) :
     /\ CanClose(b, j)
     /\ \A i \in Between(b.frame.startLine, j) : ~Outdented(b.entry, i, OpenerIndent(b))}

\* C16: the close search finds the first of the lines that can close the
\* block and are not behind a line that holds text and is indented less, and
\* finds nothing when there is none; the lines it passes over on its way, of
\* greater indent or blank, neither close the block nor end the search
C16_CloseLine ==
  \A b \in Blocks :
    /\ b.frame.closingFence.found <=> Closers(b) # {}
    /\ b.frame.closingFence.found =>
         /\ b.frame.closingFence.nextLine \in Closers(b)
         /\ \A j \in Closers(b) : b.frame.closingFence.nextLine <= j
    /\ \A i \in Between(b.frame.startLine, b.frame.endLine) :
         (\/ getLineIndent(b.entry, i) > OpenerIndent(b)
          \/ (IsBlankText(LineRaw(b.entry, i)) /\ getLineIndent(b.entry, i) < OpenerIndent(b)))
           => b.frame.closingFence.nextLine # i

\* a block has returned whose close search passed over a line of three
\* markers indented more than the opener and found the closing line after it
C16_Witness ==
  /\ Returned({"container"})
  /\ ret.frame.closingFence = [found |-> TRUE, nextLine |-> ret.frame.startLine + 2]
  /\ LineText(ret.before, ret.frame.startLine + 1) = Rep(ret.frame.rule.marker, 3)
  /\ getLineIndent(ret.before, ret.frame.startLine + 1)
       > getLineIndent(ret.before, ret.frame.startLine)

\* the first of a set of lines
First(lines) == CHOOSE j \in lines : \A i \in lines : j <= i

\* C17: a fenced rule that returns from a match leaves the cursor on the
\* line after the closing line when the block has one, and else on the line
\* the close search ended at, the end of the scope or the first line that
\* holds text and is indented less than the opener, which is left to the caller
C17_CursorAfterBlock ==
  Returned({"container"}) =>
    /\ Closers(ReturnedBlock) # {} =>
         ret.after.line = First(Closers(ReturnedBlock)) + 1
    /\ Closers(ReturnedBlock) = {} =>
         /\ ret.after.line = Boundary(ReturnedBlock)
         /\ ret.frame.to = ret.after.line
    /\ ret.after.line <= ret.frame.endLine

\* a block with a closing line returns and a line of the scope is left
\* after it
C17_Witness ==
  /\ Returned({"container"})
  /\ ret.frame.closingFence.found
  /\ ret.after.line = ret.frame.closingFence.nextLine + 1
  /\ ret.after.line < ret.frame.endLine
  /\ LineText(ret.before, ret.after.line) = <<"x">>

\* the character of the buffer at p is the one the repeated marker has there
Repeats(p) ==
  Ch(probe.buffer, p) = Ch(probe.marker, Rem(p - probe.startPosition, Len(probe.marker)))

\* the positions from the first one up to max that break the repetition
Breaks == {p \in probe.position..probe.max : ~Repeats(p)}

\* the statement of C18 as the claim words it: the result is the first
\* position from the given one on, in front of max, where the buffer differs
\* from the repeated marker, or max; it is never past max and all positions
\* before it repeat the marker
C18_AsClaimed ==
  probe.called =>
    LET differs == {p \in probe.position..(probe.max - 1) :
                      Ch(probe.buffer, p)
                        # Ch(probe.marker, (p - probe.startPosition) % Len(probe.marker))}
    IN  /\ probe.result = IF differs = {} THEN probe.max ELSE First(differs)
        /\ probe.result <= probe.max
        /\ \A p \in probe.position..(probe.result - 1) :
             Ch(probe.buffer, p)
               = Ch(probe.marker, (p - probe.startPosition) % Len(probe.marker))

\* C18 (amended): the matcher returns the first position from the given one
\* up to max, max included, where the buffer differs from the repeated
\* marker; with none it returns max + 1, one past max, or the position it
\* was given when that lies past max already; every position before the
\* result repeats the marker (an index outside the marker or the buffer
\* reads as undefined, the remainder is JavaScript's)
C18_Matcher ==
  probe.called =>
    /\ probe.result = IF Breaks # {} THEN First(Breaks)
                      ELSE IF probe.position > probe.max THEN probe.position
                      ELSE probe.max + 1
    /\ \A p \in probe.position..(probe.result - 1) : Repeats(p)
    /\ probe.result >= probe.position

\* the matcher was called on "aba" from 1 to 2 for the marker "ab" begun at
\* 0 and has returned 3
C18_Witness ==
  /\ probe.called
  /\ probe.buffer = <<"a", "b", "a">>
  /\ probe.marker = <<"a", "b">>
  /\ probe.position = 1
  /\ probe.max = 2
  /\ probe.startPosition = 0
  /\ probe.result = 3

RECURSIVE StartOf(_, _)
\* the sum over the lines before the i-th of their length plus one
StartOf(c, i) == IF i <= 1 THEN 0 ELSE StartOf(c, i - 1) + Len(c[i - 1]) + 1

\* the body lines of the callout whose body the tokenize loop on top of the
\* stack is working on, if there is one
InBody == {stack[k].frame.contentLines :
             k \in {j \in 1..Len(stack) : stack[j].kind = "callout" /\ j + 1 = Len(stack)}}

\* C19: while the body of a callout is tokenized, the buffer is the body
\* lines joined by single newlines and the line table has one entry a line:
\* the start of line i is the sum of the lengths, plus one each, of the
\* lines before it, its end is its start plus its length, its indent and its
\* left trim are 0; so the buffer between start and end is the line itself
\* and the starts do not decrease
C19_SyntheticTable ==
  \A c \in InBody :
    /\ Len(c) >= 1
    /\ state.src = Join(c, <<"\n">>)
    /\ Len(state.bMarks) = Len(c) /\ Len(state.eMarks) = Len(c)
    /\ Len(state.tShift) = Len(c) /\ Len(state.sCount) = Len(c)
    /\ \A i \in 1..Len(c) :
         /\ state.bMarks[i] = StartOf(c, i)
         /\ state.eMarks[i] = state.bMarks[i] + Len(c[i])
         /\ state.tShift[i] = 0
         /\ state.sCount[i] = 0
         /\ Slice(state.src, state.bMarks[i], state.eMarks[i]) = c[i]
         /\ i > 1 => state.bMarks[i - 1] <= state.bMarks[i]

\* the body of a callout with two lines of different lengths is being
\* tokenized
C19_Witness ==
  \E c \in InBody :
    /\ Len(c) = 2
    /\ Len(c[1]) # Len(c[2])
    /\ state.bMarks = <<0, Len(c[1]) + 1>>
    /\ state.eMarks[2] = Len(state.src)

\* the tokenize loop on top of the stack is the one a callout started over
\* its body
BodyLoop ==
  /\ Len(stack) >= 2
  /\ Top.kind = "tokenize"
  /\ stack[Len(stack) - 1].kind = "callout"

\* the callout whose body is tokenized
BodyFrame == stack[Len(stack) - 1].frame

\* C20: the tokenize loop a callout starts over its body is given the whole
\* range of the body lines, from 0 to their number, and leaves only once no
\* body line with text is left before the end of that range, whatever
\* blkIndent the callout was entered with
C20_BodyTokenized ==
  BodyLoop =>
    /\ BodyFrame.contentLines # <<>>
    /\ BodyFrame.from = 0
    /\ Top.endLine = Len(BodyFrame.contentLines)
    /\ loopEnds(state, Top) => skipEmptyLines(state, Top.line) >= Top.endLine

\* a callout in a block with blkIndent above 0: the loop over its body leaves
\* at the first body line, which holds text
C20_BodySkipped ==
  /\ BodyLoop
  /\ state.blkIndent > 0
  /\ loopEnds(state, Top)
  /\ Top.line = 0
  /\ Slice(state.src, state.bMarks[1], state.eMarks[1]) = <<"x">>

\* the fenced blocks whose interior the tokenize loop on top of the stack is
\* working on: the loop is between two rules, or at its end
InInterior ==
  {[frame |-> stack[k].frame, entry |-> stack[k].entry] :
     k \in {j \in 1..Len(stack) : stack[j].kind = "container" /\ j + 1 = Len(stack)}}

\* the tokens added since the block b was entered, its open token excluded
InteriorTokens(b, tokens) ==
  {tokens[i] : i \in (Len(b.entry.tokens) + 2)..Len(tokens)}

\* C21: while the interior of a fenced block is tokenized, lineMax is the
\* line the close search ended on (the closing line, or the line or end of
\* scope the block is closed at without one), blkIndent is the indent of the
\* opener and parentType is "container"; the loop over the interior was
\* given the lines from the one after the opener up to, not including, that
\* line, stays inside them, and no token of the interior reaches that line
\* or starts before the interior
C21_InteriorContext ==
  \A b \in InInterior :
    /\ state.lineMax = b.frame.closingFence.nextLine
    /\ state.blkIndent = getLineIndent(b.entry, b.frame.startLine)
    /\ state.parentType = "container"
    /\ b.frame.from = b.frame.startLine + 1
    /\ b.frame.to = b.frame.closingFence.nextLine
    /\ Top.endLine = b.frame.to
    /\ Top.line >= b.frame.from /\ Top.line <= b.frame.to
    /\ \A tk \in InteriorTokens(b, state.tokens) :
         tk.map # <<>> =>
           /\ tk.map[2] <= b.frame.closingFence.nextLine
           /\ tk.level = b.entry.level + 1 => tk.map[1] >= b.frame.from

\* the interior of an indented block that has a closing line is tokenized
\* inside a wider scope: the interior has tokens and the loop over it has come
\* to the closing line
C21_Witness ==
  \E b \in InInterior :
    /\ b.frame.closingFence.found
    /\ b.frame.closingFence.nextLine < b.entry.lineMax
    /\ getLineIndent(b.entry, b.frame.startLine) > b.entry.blkIndent
    /\ InteriorTokens(b, state.tokens) # {}
    /\ Top.line = b.frame.to

\* the calls of the plugin's rules, silent or not, that returned no match
Misses == {c \in calls : c.rule.kind \in {"container", "callout"} /\ ~c.ok}

\* C22: a call of the fenced rule or of the callout rule that returns no
\* match, in silent mode or not, has changed no field of the context: no
\* token is added, and the cursor, parentType, lineMax, blkIndent, the
\* buffer and the line table are the ones it was called with
C22_MissChangesNothing ==
  \A c \in Misses : c.changed = {}

\* a line of three markers without a type name, which the fenced rule called
\* by the loop turned down at its validation and the callout rule at its
\* first character, became a paragraph; the next line holds two markers, too
\* few for the fenced rule asked in silent mode
C22_Witness ==
  /\ \E c \in Misses :
       /\ c.rule.kind = "container" /\ ~c.silent
       /\ c.text = Rep(c.rule.marker, 3)
  /\ \E c \in Misses :
       /\ c.rule.kind = "callout" /\ ~c.silent
       /\ Head(c.text) # ">"
  /\ \E c \in Misses :
       /\ c.rule.kind = "container" /\ c.silent
       /\ c.text = Rep(c.rule.marker, 2)
  /\ state.tokens # <<>>

\* C23: a rule of the plugin that matched, not in silent mode, a line before
\* the end of the range it was called with leaves the cursor after that line
\* and not after the end of the range
C23_CursorAdvances ==
  Returned(PluginKinds) /\ ret.frame.startLine < ret.frame.endLine =>
    /\ ret.after.line > ret.frame.startLine
    /\ ret.after.line <= ret.frame.endLine

\* a callout that does not begin the document returns with a body that runs
\* to the end of the range: the cursor is on that end
C23_Witness ==
  /\ Returned({"callout"})
  /\ ret.frame.startLine > 0
  /\ ret.frame.contentLines # <<>>
  /\ ret.after.line = ret.frame.endLine

\* the rules the plugin has put on the block ruler
PluginRules ==
  {md.ruler[i] : i \in {j \in 1..Len(md.ruler) : md.ruler[j].kind \in {"container", "callout"}}}

\* the answer of a rule of the plugin: match or no match
Answer(st, rule, startLine, endLine, silent) ==
  IF rule.kind = "container" THEN container(st, rule, startLine, endLine, silent).ok
  ELSE obsidianCallout(st, rule, startLine, endLine, silent).ok

\* the context with the text of one line, from its first character on, as
\* its whole buffer
Alone(st, line) ==
  [st EXCEPT !.src = LineText(st, line), !.bMarks = <<0>>, !.tShift = <<0>>,
             !.eMarks = <<Len(LineText(st, line))>>,
             !.sCount = <<getLineIndent(st, line)>>, !.lineMax = 1, !.line = 0]

\* C24: in every context the tokenize loop calls the rules in, and at every
\* line of the range from the loop's line on, each rule of the plugin gives
\* the same answer in silent mode as not in silent mode; the answer is the
\* same with no line offered after the start line, and the same for the text
\* of the start line on its own
C24_SameAnswer ==
  atRule =>
    \A rule \in PluginRules :
      \A line \in skipEmptyLines(state, Top.line)..(Top.endLine - 1) :
        \E answer \in {Answer(atLine(state, Top), rule, line, Top.endLine, TRUE)} :
          /\ Answer(atLine(state, Top), rule, line, Top.endLine, FALSE) = answer
          /\ Answer(atLine(state, Top), rule, line, line + 1, FALSE) = answer
          /\ Answer(atLine(state, Top), rule, line, line + 1, TRUE) = answer
          /\ Answer(Alone(atLine(state, Top), line), rule, 0, 1, FALSE) = answer
          /\ Answer(Alone(atLine(state, Top), line), rule, 0, 1, TRUE) = answer

\* the loop is on the last line of its range, after other lines: one fenced
\* rule matches it, with no line to close it, the callout rule does not
C24_Witness ==
  /\ atRule
  /\ Top.line > 0
  /\ Top.line + 1 = Top.endLine
  /\ \E rule \in PluginRules :
       /\ rule.kind = "container"
       /\ Answer(atLine(state, Top), rule, Top.line, Top.endLine, FALSE)
       /\ Answer(atLine(state, Top), rule, Top.line, Top.endLine, TRUE)
  /\ \E rule \in PluginRules :
       /\ rule.kind = "callout"
       /\ ~Answer(atLine(state, Top), rule, Top.line, Top.endLine, FALSE)

====
